---- MODULE Spec2Model ----
(***************************************************************************)
(* Scoring of WPT result trees.                                            *)
(*                                                                         *)
(* lib/browser-specific.js, the un-cached version, step by step:           *)
(* IteratorHelper, scoreTest, walkTrees, scoreBrowserSpecificFailures.     *)
(* Its cached version and lib/browser-pass-rate.js, one step per call,     *)
(* with the module-level score caches they keep between calls.             *)
(*                                                                         *)
(* Beside them the report scorer (scoreReport), the run fetcher            *)
(* (fetchAlignedRunsFromServer) and the tree loader of git-query.js        *)
(* (readTree, readResults), each with its own variables and its own        *)
(* specification.                                                          *)
(*                                                                         *)
(* Scores are exact rationals kept in units of 1/Scale, so that            *)
(* counts[i] / denominator is an integer number of units.                  *)
(***************************************************************************)
EXTENDS Integers, Sequences, FiniteSets, TLC

VARIABLES
    pc,               \* where the call is: validate, tests, subtrees, scoreTest, subtests,
                      \* cachedTests, done, threw
    runs,             \* the runs argument: sequence of [browser_name, tree]
    expectedBrowsers, \* the expectedBrowsers argument
    heap,             \* the test objects, by reference; subtests arrays are sorted in place
    stack,            \* the walkTrees activations, innermost last
    browserTests,     \* scoreTest's argument: references of the N test objects
    browserSubtests,  \* scoreTest's array iterators
    denominator,      \* scoreTest's local
    counts,           \* scoreTest's local
    scores,           \* the accumulator shared by the whole walk
    result,           \* what the call returned or threw
    scorer,           \* the function called: "bsf", "bsfCached" (the cached version) or "passRates"
    treesScoreCache,  \* cached version: ids of browserTrees -> score array
    testsScoreCache,  \* cached version: ids of browserTests -> score array
    treeScoreCache,   \* pass rates: tree id -> score
    testScoreCache,   \* pass rates: test id -> score
    history,          \* the calls made before this one: sequence of [scorer, result]
    reportPc,         \* scoreReport: idle, loop, returned, threw
    results,          \* scoreReport: report.results, a sequence of test objects
    options,          \* scoreReport: the options argument
    position,         \* scoreReport: the index of the test the loop is at
    bucket,           \* scoreReport: dirBuckets.get('/'), <<>> while there is none
    outcome,          \* scoreReport: what the call returned or threw
    fetchPc,          \* fetchAlignedRunsFromServer: idle, loop, returned, threw
    fromObject,       \* the moment object `from` refers to: 0 is the caller's, k > 0 is
                      \* the end of the k-th bad range of the selected label
    fromDay,          \* the day of the caller's moment object
    to,               \* the day of the `to` argument
    experimental,     \* the `experimental` argument
    badRanges,        \* STABLE_BAD_RANGES and EXPERIMENTAL_BAD_RANGES: sequences of <<start, end>>
    cacheReads,       \* the days whose cache file was read
    serverQueries,    \* the days the server was asked for
    alignedRuns,      \* the map the call builds: day -> number of runs
    loaded,           \* git-query.js: the objects built so far, by reference:
                      \* [oid, isTree, trees, tests]
    treeCache,        \* git-query.js: oid -> reference of a tree object
    testCache,        \* git-query.js: oid -> reference of a test object
    loads             \* the readTree and readResults calls made: [stack, ret, value],
                      \* stack being the activations suspended at an await, innermost last

\* the module-level caches of the two cached scorers
cacheVars == <<treesScoreCache, testsScoreCache, treeScoreCache, testScoreCache>>

\* the state of the tree scorers
scoringVars == <<pc, runs, expectedBrowsers, heap, stack, browserTests,
                 browserSubtests, denominator, counts, scores, result,
                 scorer, cacheVars, history>>

\* the state of scoreReport
reportVars == <<reportPc, results, options, position, bucket, outcome>>

\* no scoreReport call is under way
ReportIdle ==
    /\ reportPc = "idle"
    /\ results = <<>>
    /\ options = [normalizePerTest |-> FALSE, requireHarnessOK |-> FALSE]
    /\ position = 0
    /\ bucket = <<>>
    /\ outcome = [kind |-> "none"]

\* Days are numbered from 0.  The bad ranges of the two labels as the module
\* defines them, [start, end): two for stable, the second of them also for
\* experimental.
InitialBadRanges ==
    [ stable |-> << <<1, 3>>, <<4, 6>> >>,
      experimental |-> << <<4, 6>> >> ]

\* the state of fetchAlignedRunsFromServer
fetchVars == <<fetchPc, fromObject, fromDay, to, experimental, badRanges,
               cacheReads, serverQueries, alignedRuns>>

\* no fetchAlignedRunsFromServer call is under way
FetchIdle ==
    /\ fetchPc = "idle"
    /\ fromObject = 0
    /\ fromDay = 0
    /\ to = 0
    /\ experimental = FALSE
    /\ badRanges = InitialBadRanges
    /\ cacheReads = {}
    /\ serverQueries = {}
    /\ alignedRuns = <<>>

\* the state of the loader
loaderVars == <<loaded, treeCache, testCache, loads>>

\* nothing has been loaded
LoaderIdle ==
    /\ loaded = <<>>
    /\ treeCache = <<>>
    /\ testCache = <<>>
    /\ loads = <<>>

\* the state of the parts of the program other than the tree scorers
restVars == <<reportVars, fetchVars, loaderVars>>

RestIdle == ReportIdle /\ FetchIdle /\ LoaderIdle

vars == <<scoringVars, restVars>>

---------------------------------------------------------------------------
(* Bounds *)

\* a process makes at most this many scoring calls
MaxCalls == 2

\* a report has at most this many results
MaxResults == 2

\* the last day of the calendar
MaxDay == 8

\* at most this many calls of the loader are made
MaxLoads == 3

\* --products has this many entries
Products == 2
\* scoreTest on its own: at most this many browsers
MaxBrowserTests == 3
\* the whole scorer: at most this many runs
MaxRuns == 3

---------------------------------------------------------------------------
(* Statuses and names *)

TestStatus == {"CRASH", "ERROR", "FAIL", "OK", "PASS", "SKIP", "TIMEOUT"}
SubtestStatus == {"ERROR", "FAIL", "NOTRUN", "PASS", "TIMEOUT"}

\* The names used for tests, directories and subtests.  "a" and "b" order the
\* same way under both comparisons below; "B" does not.
Names == {"a", "b", "B"}

\* k1.localeCompare(k2) < 0, as ICU collation (Node's default build) orders
\* the names: a < b < B.
LocaleRank(name) ==
    CASE name = "a" -> 1
      [] name = "b" -> 2
      [] name = "B" -> 3

\* The UTF-16 code unit of a one-letter name: what the < operator compares.
CodeUnit(name) ==
    CASE name = "B" -> 66
      [] name = "a" -> 97
      [] name = "b" -> 98

\* k1 < k2 on strings
CodeUnitLess(k1, k2) == CodeUnit(k1) < CodeUnit(k2)

\* comparatorFunc(k1, k2) <= 0 for both comparators of the module
LocaleLeq(k1, k2) == LocaleRank(k1) <= LocaleRank(k2)

---------------------------------------------------------------------------
(* Sequences *)

Range(s) == {s[i] : i \in 1..Len(s)}

Zeros(n) == [i \in 1..n |-> 0]

RECURSIVE InsertSubtest(_, _)
\* one step of the stable sort: s is sorted, x came after all of s
InsertSubtest(s, x) ==
    IF s = <<>> THEN <<x>>
    ELSE IF LocaleLeq(s[Len(s)].name, x.name) THEN Append(s, x)
    ELSE Append(InsertSubtest(SubSeq(s, 1, Len(s) - 1), x), s[Len(s)])

RECURSIVE SortSubtests(_)
\* values.sort(comparator): stable, by subtest name
SortSubtests(s) ==
    IF s = <<>> THEN <<>>
    ELSE InsertSubtest(SortSubtests(SubSeq(s, 1, Len(s) - 1)), s[Len(s)])

RECURSIVE SortKeys(_)
\* Object.keys(values).sort(keyComparator): the keys are distinct
SortKeys(S) ==
    IF S = {} THEN <<>>
    ELSE LET first == CHOOSE k \in S : \A o \in S : LocaleLeq(k, o)
         IN <<first>> \o SortKeys(S \ {first})

---------------------------------------------------------------------------
(* Test objects *)

Sub(name, status) == [name |-> name, status |-> status]

\* a test object: {status} / {status, subtests: []} / {status, subtests: [...]}
Leaf(status) == [status |-> status, hasSubtests |-> FALSE, subtests |-> <<>>]
WithSubtests(status, subtests) ==
    [status |-> status, hasSubtests |-> TRUE, subtests |-> subtests]

\* The test objects scoreTest is tried on.
LeafPool ==
    {Leaf(st) : st \in TestStatus}
        \cup {WithSubtests("FAIL", <<>>), WithSubtests("PASS", <<>>)}

ProbePool == {WithSubtests("OK", <<Sub("a", st)>>) : st \in SubtestStatus}

MergePool ==
    { WithSubtests("OK", <<Sub("b", "FAIL")>>),
      WithSubtests("ERROR", <<Sub("B", "FAIL")>>),
      WithSubtests("OK", <<Sub("b", "PASS"), Sub("a", "FAIL")>>),
      WithSubtests("OK", <<Sub("a", "PASS"), Sub("b", "FAIL")>>),
      WithSubtests("OK", <<Sub("a", "FAIL"), Sub("B", "PASS")>>),
      WithSubtests("OK", <<Sub("a", "FAIL"), Sub("a", "PASS")>>),
      WithSubtests("TIMEOUT", <<Sub("B", "FAIL"), Sub("b", "NOTRUN"), Sub("a", "PASS")>>) }

TestPool == LeafPool \cup ProbePool \cup MergePool

\* The test objects of the result trees the whole scorer is tried on, by
\* reference.  3 has the content of 2 and 7 the content of 4, as separate objects;
\* 8 has two subtests of one name.
WalkHeap ==
    << Leaf("PASS"),
       Leaf("FAIL"),
       Leaf("FAIL"),
       WithSubtests("OK", <<Sub("b", "PASS"), Sub("a", "FAIL")>>),
       WithSubtests("OK", <<Sub("a", "PASS"), Sub("b", "PASS")>>),
       WithSubtests("OK", <<Sub("B", "PASS")>>),
       WithSubtests("OK", <<Sub("b", "PASS"), Sub("a", "FAIL")>>),
       WithSubtests("OK", <<Sub("a", "FAIL"), Sub("a", "PASS")>>) >>

RECURSIVE ProductOf(_)
ProductOf(S) ==
    IF S = {} THEN 1
    ELSE LET n == CHOOSE m \in S : TRUE IN n * ProductOf(S \ {n})

\* One point of score, in units of 1/Scale: every possible denominator divides Scale.
Scale ==
    ProductOf({Len(t.subtests) : t \in TestPool \cup Range(WalkHeap)} \ {0})

---------------------------------------------------------------------------
(* Score caches *)

\* new Map
EmptyCache == [key \in {} |-> 0]

\* the state of the caches when the module is loaded
NoCaches ==
    /\ treesScoreCache = EmptyCache
    /\ testsScoreCache = EmptyCache
    /\ treeScoreCache = EmptyCache
    /\ testScoreCache = EmptyCache

\* mutant: a new key is given the value of an entry the cache already holds
CacheSet_Stale(cache, key, value) ==
    [k \in DOMAIN cache \cup {key} |->
        IF k \in DOMAIN cache THEN cache[k]
        ELSE IF DOMAIN cache = {} THEN value
        ELSE cache[CHOOSE o \in DOMAIN cache : TRUE]]

\* mutant: the cache holds the newest entry only
CacheSet_Replace(cache, key, value) == [k \in {key} |-> value]

\* cache.set(key, value)
CacheSet(cache, key, value) ==
    [k \in DOMAIN cache \cup {key} |-> IF k = key THEN value ELSE cache[k]]

---------------------------------------------------------------------------
(* IteratorHelper *)

\* new IteratorHelper(object, keyComparator)
KeyIterator(values) ==
    [ isArray |-> FALSE,
      keys |-> SortKeys(DOMAIN values),
      currentIndex |-> 0,
      maxIndex |-> Cardinality(DOMAIN values) ]

\* new IteratorHelper(array, comparator); the array itself is sorted by the caller's heap update
ArrayIterator(values) ==
    [ isArray |-> TRUE,
      keys |-> <<>>,
      currentIndex |-> 0,
      maxIndex |-> Len(values) ]

hasNext(it) == it.currentIndex < it.maxIndex

\* mutant: next() moves two elements on
next_Twice(it) == [it EXCEPT !.currentIndex = @ + 2]

next(it) == [it EXCEPT !.currentIndex = @ + 1]

currentKey(it) == it.keys[it.currentIndex + 1]

\* currentValue() of an iterator over the object or array values
currentValue(it, values) ==
    IF it.isArray THEN values[it.currentIndex + 1] ELSE values[currentKey(it)]

RECURSIVE SmallestFrom(_, _, _)
\* the for loop that looks for the smallest current key, from index i on
SmallestFrom(keys, i, smallestIdx) ==
    IF i > Len(keys) THEN smallestIdx
    ELSE IF CodeUnitLess(keys[i], keys[smallestIdx])
         THEN SmallestFrom(keys, i + 1, i)
         ELSE SmallestFrom(keys, i + 1, smallestIdx)

\* smallestIdx after the loop (1-based)
SmallestIdx(keys) == SmallestFrom(keys, 2, 1)

\* its.forEach(t => t.next())
AdvanceAll(its) == [i \in 1..Len(its) |-> next(its[i])]

\* its[smallestIdx].next()
AdvanceOne(its, idx) == [its EXCEPT ![idx] = next(@)]

---------------------------------------------------------------------------
(* scoreTest *)

N == Len(browserTests)

Test(i) == heap[browserTests[i]]

\* mutant: only a missing subtests field counts as no subtests
NoSubtests_FieldOnly(t) == ~t.hasSubtests

\* !t.subtests || t.subtests.length == 0
NoSubtests(t) == ~t.hasSubtests \/ Len(t.subtests) = 0

\* t.subtests && t.subtests.length > 0
SomeSubtests(t) == t.hasSubtests /\ Len(t.subtests) > 0

\* browserTests[i].status !== 'PASS'
IsTestFailure(status) == status # "PASS"

\* mutant: the subtest-level check copied from the test level
IsSubtestFailure_NotPass(status) == status # "PASS"

\* browserSubtests[i].currentValue().status == 'FAIL'
IsSubtestFailure(status) == status = "FAIL"

\* mutant: some() in place of every()
AllNoSubtests_Some == \E i \in 1..N : ~Test(i).hasSubtests \/ Len(Test(i).subtests) = 0

\* browserTests.every(t => !t.subtests || t.subtests.length == 0)
AllNoSubtests == \A i \in 1..N : NoSubtests(Test(i))

\* browserTests.every(t => t.subtests && t.subtests.length > 0)
AllSomeSubtests == \A i \in 1..N : SomeSubtests(Test(i))

\* mutant: the first failing browser is credited however many fail
CreditOnlyFailure_Any(acc, failed, amount) ==
    IF Cardinality(failed) >= 1
    THEN LET i == CHOOSE j \in failed : \A k \in failed : j <= k
         IN [acc EXCEPT ![i] = @ + amount]
    ELSE acc

\* mutant: the only failing browser is credited twice the amount
CreditOnlyFailure_Twice(acc, failed, amount) ==
    IF Cardinality(failed) = 1
    THEN LET i == CHOOSE j \in failed : TRUE IN [acc EXCEPT ![i] = @ + 2 * amount]
    ELSE acc

\* mutant: every failing browser is credited
CreditOnlyFailure_Each(acc, failed, amount) ==
    [i \in 1..Len(acc) |-> IF i \in failed THEN acc[i] + amount ELSE acc[i]]

\* if (failed.length == 1) acc[failed[0]] += amount
CreditOnlyFailure(acc, failed, amount) ==
    IF Cardinality(failed) = 1
    THEN LET i == CHOOSE j \in failed : TRUE IN [acc EXCEPT ![i] = @ + amount]
    ELSE acc

\* the top walkTrees activation, after scoreTest returned: advance every test iterator
AfterScoreTest(frames) ==
    [frames EXCEPT ![Len(frames)].its = AdvanceAll(@)]

\* scoreTest returns to the test loop of walkTrees (or to its caller)
ReturnFromScoreTest(newScores) ==
    /\ scores' = newScores
    /\ browserTests' = <<>>
    /\ browserSubtests' = <<>>
    /\ denominator' = 0
    /\ counts' = <<>>
    /\ IF stack = <<>>
       THEN pc' = "done" /\ stack' = stack
       ELSE pc' = "tests" /\ stack' = AfterScoreTest(stack)
    /\ UNCHANGED <<restVars, scorer, cacheVars, history, runs, expectedBrowsers, result>>

\* the test-level branch: no browser reports subtests
ScoreTestNoSubtests ==
    /\ pc = "scoreTest"
    /\ AllNoSubtests
    /\ LET failed == {i \in 1..N : IsTestFailure(Test(i).status)}
       IN ReturnFromScoreTest(CreditOnlyFailure(scores, failed, Scale))
    /\ UNCHANGED heap

\* the subtest-level branch: build the iterators, sorting every subtests array in place
ScoreTestAllSubtests ==
    /\ pc = "scoreTest"
    /\ ~AllNoSubtests
    /\ AllSomeSubtests
    /\ heap' = [r \in DOMAIN heap |->
                  IF r \in Range(browserTests)
                  THEN [heap[r] EXCEPT !.subtests = SortSubtests(@)]
                  ELSE heap[r]]
    /\ browserSubtests' = [i \in 1..N |-> ArrayIterator(Test(i).subtests)]
    /\ denominator' = 0
    /\ counts' = Zeros(N)
    /\ pc' = "subtests"
    /\ UNCHANGED <<restVars, scorer, cacheVars, history, runs, expectedBrowsers, stack, browserTests, scores, result>>

\* neither branch: some browsers report subtests and some do not
ScoreTestMixed ==
    /\ pc = "scoreTest"
    /\ ~AllNoSubtests
    /\ ~AllSomeSubtests
    /\ ReturnFromScoreTest(scores)
    /\ UNCHANGED heap

\* browserSubtests[i].currentValue()
SubtestAt(i) == currentValue(browserSubtests[i], Test(i).subtests)

\* browserSubtests.every(subtests => subtests.hasNext())
SubtestsRemain == \A i \in 1..N : hasNext(browserSubtests[i])

\* mutant: only the second browser's name is compared with the first's
SubtestsMisaligned_FirstTwo ==
    N >= 2 /\ currentValue(browserSubtests[2], Test(2).subtests).name
                  # currentValue(browserSubtests[1], Test(1).subtests).name

\* browserSubtests.some(s => s.currentValue().name != name)
SubtestsMisaligned == \E i \in 1..N : SubtestAt(i).name # SubtestAt(1).name

\* the iterators are on different names: advance the one with the smallest
SubtestsAdvanceSmallest ==
    /\ pc = "subtests"
    /\ SubtestsRemain
    /\ SubtestsMisaligned
    /\ browserSubtests' =
          AdvanceOne(browserSubtests, SmallestIdx([i \in 1..N |-> SubtestAt(i).name]))
    /\ UNCHANGED <<restVars, scorer, cacheVars, history, pc, runs, expectedBrowsers, heap, stack, browserTests,
                   denominator, counts, scores, result>>

\* the iterators are all on the same name: score the subtest
SubtestsAligned ==
    /\ pc = "subtests"
    /\ SubtestsRemain
    /\ ~SubtestsMisaligned
    /\ denominator' = denominator + 1
    /\ LET failed == {i \in 1..N : IsSubtestFailure(SubtestAt(i).status)}
       IN counts' = CreditOnlyFailure(counts, failed, 1)
    /\ browserSubtests' = AdvanceAll(browserSubtests)
    /\ UNCHANGED <<restVars, scorer, cacheVars, history, pc, runs, expectedBrowsers, heap, stack, browserTests,
                   scores, result>>

\* mutant: the count is added without being divided
Normalized_NoDivision(acc, cnts, den) ==
    [i \in 1..Len(acc) |-> acc[i] + cnts[i] * Scale]

\* scores[i] += counts[i] / denominator
Normalized(acc, cnts, den) ==
    IF den > 0
    THEN [i \in 1..Len(acc) |-> acc[i] + (cnts[i] * Scale) \div den]
    ELSE acc

\* some iterator is exhausted: normalize and return
SubtestsExhausted ==
    /\ pc = "subtests"
    /\ ~SubtestsRemain
    /\ ReturnFromScoreTest(Normalized(scores, counts, denominator))
    /\ UNCHANGED heap

---------------------------------------------------------------------------
(* Result trees *)

\* a tree object: tests maps a name to a test reference, trees a name to a tree reference
Dir(tests, trees) == [tests |-> tests, trees |-> trees]

NoEntries == <<>>

\* The tree objects the whole scorer is tried on, by reference.  The loader
\* shares objects, so one reference may sit under several names and in
\* several trees.
DirHeap ==
    << Dir(NoEntries, NoEntries),
       Dir("a" :> 1, NoEntries),
       Dir("a" :> 2, NoEntries),
       Dir("a" :> 3, NoEntries),
       Dir("a" :> 4, NoEntries),
       Dir("a" :> 5, NoEntries),
       Dir("a" :> 6, NoEntries),
       Dir("a" :> 7, NoEntries),
       Dir("a" :> 2 @@ "b" :> 1, NoEntries),
       Dir("b" :> 2, NoEntries),
       Dir("a" :> 1 @@ "B" :> 2, NoEntries),
       Dir("B" :> 1, NoEntries),
       Dir("b" :> 1 @@ "B" :> 2, NoEntries),
       Dir("a" :> 2 @@ "b" :> 2 @@ "B" :> 1, NoEntries),
       Dir(NoEntries, "a" :> 3),
       Dir(NoEntries, "a" :> 2),
       Dir(NoEntries, "a" :> 4),
       Dir("a" :> 1, "a" :> 3 @@ "b" :> 2),
       Dir(NoEntries, "b" :> 3),
       Dir(NoEntries, "a" :> 2 @@ "B" :> 3),
       Dir(NoEntries, "B" :> 2),
       Dir(NoEntries, "a" :> 15),
       Dir(NoEntries, "a" :> 16),
       Dir("a" :> 8, NoEntries),
       Dir("a" :> 1 @@ "b" :> 2, NoEntries),
       Dir("b" :> 1, NoEntries) >>

DirRefs == DOMAIN DirHeap

\* the reference of the empty tree
EmptyDir == CHOOSE r \in DirRefs : DirHeap[r] = Dir(NoEntries, NoEntries)

\* browser names, in the order the runs of the model carry them
AllBrowsers == <<"chrome", "firefox", "safari", "edge", "servo">>

---------------------------------------------------------------------------
(* scoreBrowserSpecificFailures: validation *)

RECURSIVE ValidateFrom(_, _, _, _)
\* the for loop over runs from index i on, then the size check
ValidateFrom(rs, expected, i, seenBrowsers) ==
    IF i > Len(rs)
    THEN IF Cardinality(seenBrowsers) # Cardinality(expected)
         THEN [kind |-> "MissingBrowser", names |-> expected \ seenBrowsers]
         ELSE [kind |-> "ok", names |-> {}]
    ELSE LET browserName == rs[i].browser_name IN
         IF browserName \notin expected
         THEN [kind |-> "UnexpectedBrowser", names |-> {browserName}]
         ELSE IF browserName \in seenBrowsers
         THEN [kind |-> "DuplicateBrowser", names |-> {browserName}]
         ELSE ValidateFrom(rs, expected, i + 1, seenBrowsers \cup {browserName})

\* mutant: the size check after the loop is left out
ValidateRuns_NoSizeCheck(rs, expected) ==
    LET v == ValidateFrom(rs, expected, 1, {})
    IN IF v.kind = "MissingBrowser" THEN [kind |-> "ok", names |-> {}] ELSE v

\* mutant: a repeated browser anywhere in runs is reported before anything else
ValidateRuns_DuplicateFirst(rs, expected) ==
    LET repeated == {i \in 1..Len(rs) : \E j \in 1..(i - 1) : rs[j].browser_name = rs[i].browser_name}
    IN IF repeated # {}
       THEN [kind |-> "DuplicateBrowser",
             names |-> {rs[CHOOSE i \in repeated : \A j \in repeated : i <= j].browser_name}]
       ELSE ValidateFrom(rs, expected, 1, {})

\* mutant: an unexpected browser anywhere in runs is reported before anything else
ValidateRuns_UnexpectedFirst(rs, expected) ==
    LET unexpected == {i \in 1..Len(rs) : rs[i].browser_name \notin expected}
    IN IF unexpected # {}
       THEN [kind |-> "UnexpectedBrowser",
             names |-> {rs[CHOOSE i \in unexpected : \A j \in unexpected : i <= j].browser_name}]
       ELSE ValidateFrom(rs, expected, 1, {})

\* mutant: the missing-browser error lists every expected browser
ValidateRuns_ListsAll(rs, expected) ==
    LET v == ValidateFrom(rs, expected, 1, {})
    IN IF v.kind = "MissingBrowser" THEN [v EXCEPT !.names = expected] ELSE v

ValidateRuns(rs, expected) == ValidateFrom(rs, expected, 1, {})

---------------------------------------------------------------------------
(* walkTrees *)

\* the activation walkTrees(browserTrees, scores) starts with: the test iterators
TestsFrame(browserTrees) ==
    [ trees |-> browserTrees,
      phase |-> "tests",
      its |-> [i \in 1..Len(browserTrees) |-> KeyIterator(DirHeap[browserTrees[i]].tests)] ]

\* the same activation once the test loop is over: the subtree iterators
SubtreesFrame(browserTrees) ==
    [ trees |-> browserTrees,
      phase |-> "subtrees",
      its |-> [i \in 1..Len(browserTrees) |-> KeyIterator(DirHeap[browserTrees[i]].trees)] ]

Top == stack[Len(stack)]

Width == Len(Top.trees)

\* the mapping iterator i of the running loop goes over
ValuesOf(i) ==
    IF Top.phase = "tests" THEN DirHeap[Top.trees[i]].tests
    ELSE DirHeap[Top.trees[i]].trees

\* browserTests[i].currentValue(): a reference
ValueAt(i) == currentValue(Top.its[i], ValuesOf(i))

KeyAt(i) == currentKey(Top.its[i])

\* its.every(it => it.hasNext())
AllRemain == \A i \in 1..Width : hasNext(Top.its[i])

\* its.every(it => haveSameValue(it, first))
HaveSameValue == \A i \in 1..Width : ValueAt(i) = ValueAt(1)

\* mutant: only the second iterator's key is compared with the first's
HaveSameKey_FirstTwo == \A i \in 1..Width : i <= 2 => KeyAt(i) = KeyAt(1)

\* its.every(it => it.currentKey() == first.currentKey())
HaveSameKey == \A i \in 1..Width : KeyAt(i) = KeyAt(1)

ReplaceTop(frame) == [stack EXCEPT ![Len(stack)] = frame]

\* First, verify that the expected browsers are seen in runs; then start the walk.
Validate ==
    /\ pc = "validate"
    /\ scorer = "bsf"
    /\ LET v == ValidateRuns(runs, expectedBrowsers) IN
       IF v.kind = "ok"
       THEN /\ pc' = "tests"
            /\ scores' = Zeros(Len(runs))
            /\ stack' = <<TestsFrame([i \in 1..Len(runs) |-> runs[i].tree])>>
            /\ result' = result
       ELSE /\ pc' = "threw"
            /\ result' = v
            /\ UNCHANGED <<scores, stack>>
    /\ UNCHANGED <<restVars, scorer, cacheVars, history, runs, expectedBrowsers, heap, browserTests, browserSubtests,
                   denominator, counts>>

\* all current tests are the same object: skip them
TestsSkipSame ==
    /\ pc = "tests"
    /\ AllRemain
    /\ HaveSameValue
    /\ stack' = ReplaceTop([Top EXCEPT !.its = AdvanceAll(@)])
    /\ UNCHANGED <<restVars, scorer, cacheVars, history, pc, runs, expectedBrowsers, heap, browserTests, browserSubtests,
                   denominator, counts, scores, result>>

\* the same test name in all browsers: call scoreTest on the current tests
TestsScore ==
    /\ pc = "tests"
    /\ AllRemain
    /\ ~HaveSameValue
    /\ HaveSameKey
    /\ browserTests' = [i \in 1..Width |-> ValueAt(i)]
    /\ pc' = "scoreTest"
    /\ UNCHANGED <<restVars, scorer, cacheVars, history, runs, expectedBrowsers, heap, stack, browserSubtests,
                   denominator, counts, scores, result>>

\* the iterators are on different tests: move the earliest forward
TestsAdvanceSmallest ==
    /\ pc = "tests"
    /\ AllRemain
    /\ ~HaveSameValue
    /\ ~HaveSameKey
    /\ stack' = ReplaceTop(
          [Top EXCEPT !.its = AdvanceOne(@, SmallestIdx([i \in 1..Width |-> KeyAt(i)]))])
    /\ UNCHANGED <<restVars, scorer, cacheVars, history, pc, runs, expectedBrowsers, heap, browserTests, browserSubtests,
                   denominator, counts, scores, result>>

\* some browser has no tests left: now recurse into subtrees
TestsExhausted ==
    /\ pc = "tests"
    /\ ~AllRemain
    /\ stack' = ReplaceTop(SubtreesFrame(Top.trees))
    /\ pc' = "subtrees"
    /\ UNCHANGED <<restVars, scorer, cacheVars, history, runs, expectedBrowsers, heap, browserTests, browserSubtests,
                   denominator, counts, scores, result>>

\* all current subtrees are the same object: skip them
SubtreesSkipSame ==
    /\ pc = "subtrees"
    /\ AllRemain
    /\ HaveSameValue
    /\ stack' = ReplaceTop([Top EXCEPT !.its = AdvanceAll(@)])
    /\ UNCHANGED <<restVars, scorer, cacheVars, history, pc, runs, expectedBrowsers, heap, browserTests, browserSubtests,
                   denominator, counts, scores, result>>

\* the same subtree name in all browsers: walkTrees on the current subtrees
SubtreesRecurse ==
    /\ pc = "subtrees"
    /\ AllRemain
    /\ ~HaveSameValue
    /\ HaveSameKey
    /\ stack' = Append(stack, TestsFrame([i \in 1..Width |-> ValueAt(i)]))
    /\ pc' = "tests"
    /\ UNCHANGED <<restVars, scorer, cacheVars, history, runs, expectedBrowsers, heap, browserTests, browserSubtests,
                   denominator, counts, scores, result>>

\* the iterators are on different subtrees: move the earliest forward
SubtreesAdvanceSmallest ==
    /\ pc = "subtrees"
    /\ AllRemain
    /\ ~HaveSameValue
    /\ ~HaveSameKey
    /\ stack' = ReplaceTop(
          [Top EXCEPT !.its = AdvanceOne(@, SmallestIdx([i \in 1..Width |-> KeyAt(i)]))])
    /\ UNCHANGED <<restVars, scorer, cacheVars, history, pc, runs, expectedBrowsers, heap, browserTests, browserSubtests,
                   denominator, counts, scores, result>>

\* new Map(scores.map((score, i) => [runs[i].browser_name, score]))
ScoreMap(rs, acc) ==
    [name \in {rs[i].browser_name : i \in 1..Len(rs)} |->
        acc[CHOOSE i \in 1..Len(rs) : rs[i].browser_name = name]]

\* the caller's activation after the recursive walkTrees call: advance every subtree iterator
AfterWalkTrees(frames) ==
    [frames EXCEPT ![Len(frames)].its = AdvanceAll(@)]

\* some browser has no subtrees left: walkTrees returns
SubtreesExhausted ==
    /\ pc = "subtrees"
    /\ ~AllRemain
    /\ IF Len(stack) = 1
       THEN /\ stack' = <<>>
            /\ pc' = "done"
            /\ result' = [kind |-> "scores", map |-> ScoreMap(runs, scores)]
       ELSE /\ stack' = AfterWalkTrees(SubSeq(stack, 1, Len(stack) - 1))
            /\ pc' = "subtrees"
            /\ result' = result
    /\ UNCHANGED <<restVars, scorer, cacheVars, history, runs, expectedBrowsers, heap, browserTests, browserSubtests,
                   denominator, counts, scores>>

NextScoreTest ==
    \/ ScoreTestNoSubtests
    \/ ScoreTestAllSubtests
    \/ ScoreTestMixed
    \/ SubtestsAdvanceSmallest
    \/ SubtestsAligned
    \/ SubtestsExhausted

\* scoreTest called on its own with any 1..MaxBrowserTests test objects of the pool
InitScoreTest ==
    /\ \E n \in 1..MaxBrowserTests :
          /\ heap \in [1..n -> TestPool]
          /\ browserTests = [i \in 1..n |-> i]
          /\ scores = Zeros(n)
    /\ pc = "scoreTest"
    /\ runs = <<>>
    /\ expectedBrowsers = {}
    /\ stack = <<>>
    /\ browserSubtests = <<>>
    /\ denominator = 0
    /\ counts = <<>>
    /\ result = [kind |-> "none"]
    /\ scorer = "bsf"
    /\ NoCaches
    /\ history = <<>>
    /\ RestIdle

SpecScoreTest == InitScoreTest /\ [][NextScoreTest]_vars

---------------------------------------------------------------------------
(* scoreTest on its own: the subtest-level rule (SpecScoreTest) *)

\* the subtest every iterator stands on
StatusAt(i) == SubtestAt(i).status

\* browser i is the only one whose current subtest has status FAIL
OnlyFail(i) ==
    /\ StatusAt(i) = "FAIL"
    /\ \A j \in 1..N : j # i => StatusAt(j) # "FAIL"

\* the loop is about to score an aligned subtest
AboutToScoreSubtest ==
    /\ pc = "subtests"
    /\ SubtestsRemain
    /\ \A i \in 1..N : SubtestAt(i).name = SubtestAt(1).name

\* the subtest iterator i has just moved past
JustScored(i) == Test(i).subtests[browserSubtests[i].currentIndex]

\* C2: when every browser reports subtests, an aligned subtest adds one to
\* counts[i] if and only if browser i is the only browser whose status there is
\* exactly FAIL; ERROR, TIMEOUT, NOTRUN and PASS do not count as failing.
C2_OnlyFailCounts ==
    [][AboutToScoreSubtest =>
          \A i \in 1..N :
              /\ OnlyFail(i) => counts'[i] = counts[i] + 1
              /\ ~OnlyFail(i) => counts'[i] = counts[i]]_vars

\* an aligned subtest has been scored where one browser timed out and the
\* others passed, and nobody was credited
C2_Witness ==
    /\ pc = "subtests"
    /\ N = 3
    /\ denominator = 1
    /\ \A i \in 1..N : browserSubtests[i].currentIndex = 1
    /\ JustScored(1).status = "TIMEOUT"
    /\ \A i \in 2..N : JustScored(i).status = "PASS"
    /\ \A i \in 1..N : counts[i] = 0

\* C3: after the loop scoreTest adds counts[i] / denominator to scores[i], in
\* one division; it adds nothing while the loop runs, and nothing at all when
\* no subtest was aligned.
C3_NormalizedOnce ==
    [][pc = "subtests" =>
          /\ pc' = "subtests" => scores' = scores
          /\ pc' # "subtests" =>
                \A i \in 1..N :
                    IF denominator = 0
                    THEN scores'[i] = scores[i]
                    ELSE (scores'[i] - scores[i]) * denominator = counts[i] * Scale]_vars

\* a test returned with a browser credited for half of its two aligned subtests
C3_Witness ==
    /\ pc = "done"
    /\ Len(scores) >= 2
    /\ \A r \in DOMAIN heap : Len(heap[r].subtests) = 2
    /\ \E i \in DOMAIN scores : 2 * scores[i] = Scale

\* the names browser i reports subtests for
SubtestNames(i) == {Test(i).subtests[k].name : k \in 1..Len(Test(i).subtests)}

\* C5: a subtest name missing from some browser's subtests never increments the
\* denominator or a count: both only change on a name every browser reports.
C5_MissingSubtestIgnored ==
    [][(pc = "subtests" /\ (denominator' # denominator \/ counts' # counts)
            /\ pc' = "subtests") =>
          \E name \in Names :
              /\ \A i \in 1..N : name \in SubtestNames(i)
              /\ \A i \in 1..N : SubtestAt(i).name = name
              /\ denominator' = denominator + 1]_vars

\* a subtest that one browser lacks was skipped, and a later one was scored
C5_Witness ==
    /\ pc = "subtests"
    /\ denominator = 1
    /\ \E i \in 1..N :
          /\ browserSubtests[i].currentIndex = 2
          /\ \E j \in 1..N : Test(i).subtests[1].name \notin SubtestNames(j)
    /\ \E i \in 1..N : counts[i] = 1

\* some browser reports subtests for the test and some other browser reports none
MixedSubtests ==
    /\ \E r \in DOMAIN heap : heap[r].hasSubtests /\ Len(heap[r].subtests) >= 1
    /\ \E r \in DOMAIN heap : ~heap[r].hasSubtests \/ Len(heap[r].subtests) = 0

\* C6: when some browsers report subtests for a test and others report none,
\* scoreTest adds nothing to any browser's score, whatever the statuses.
C6_MixedScoresNothing ==
    (pc = "done" /\ MixedSubtests) => \A i \in DOMAIN scores : scores[i] = 0

\* scoreTest returned on a test that passed without subtests in one browser and
\* has a failing subtest in another
C6_Witness ==
    /\ pc = "done"
    /\ Len(scores) = 2
    /\ heap[1] = Leaf("PASS")
    /\ heap[2].hasSubtests
    /\ \E k \in 1..Len(heap[2].subtests) : heap[2].subtests[k].status = "FAIL"

---------------------------------------------------------------------------
(* The whole scorer (Spec) *)

Run(i, tree) == [browser_name |-> AllBrowsers[i], tree |-> tree]

\* a valid run set: one run per expected browser
InitValidRuns ==
    \E n \in 0..MaxRuns :
        /\ runs \in {[i \in 1..n |-> Run(i, roots[i])] : roots \in [1..n -> DirRefs]}
        /\ expectedBrowsers = {AllBrowsers[i] : i \in 1..n}

\* the trees of the runs that validation is tried on: the empty tree and a
\* tree with a test whose subtests are not in order
ProbeDirs == {EmptyDir, CHOOSE r \in DirRefs : DirHeap[r] = Dir("a" :> 4, NoEntries)}

\* any runs and expected browsers
InitAnyBrowsers ==
    \E n \in 0..MaxRuns :
        /\ runs \in {[i \in 1..n |-> Run(names[i], trees[i])] :
                        names \in [1..n -> 1..MaxRuns], trees \in [1..n -> ProbeDirs]}
        /\ expectedBrowsers \in SUBSET {AllBrowsers[i] : i \in 1..MaxRuns}

Init ==
    /\ InitValidRuns \/ InitAnyBrowsers
    /\ pc = "validate"
    /\ heap = WalkHeap
    /\ stack = <<>>
    /\ browserTests = <<>>
    /\ browserSubtests = <<>>
    /\ denominator = 0
    /\ counts = <<>>
    /\ scores = <<>>
    /\ result = [kind |-> "none"]
    /\ scorer = "bsf"
    /\ NoCaches
    /\ history = <<>>
    /\ RestIdle

Next ==
    \/ Validate
    \/ TestsSkipSame
    \/ TestsScore
    \/ TestsAdvanceSmallest
    \/ TestsExhausted
    \/ SubtreesSkipSame
    \/ SubtreesRecurse
    \/ SubtreesAdvanceSmallest
    \/ SubtreesExhausted
    \/ NextScoreTest

Spec == Init /\ [][Next]_vars

\* the call runs to its end without being held up
FairSpec == Spec /\ WF_vars(Next)

---------------------------------------------------------------------------
(* The walk: which names are scored (Spec) *)

\* the root tree of run i
Root(i) == DirHeap[runs[i].tree]

\* the name is in the mapping of every tree of the running loop
InAll(name) == \A j \in 1..Width : name \in DOMAIN ValuesOf(j)

\* the names iterator i has not moved past
KeysAhead(i) ==
    {Top.its[i].keys[k] : k \in (Top.its[i].currentIndex + 1)..Top.its[i].maxIndex}

\* C4: a test is handed to scoreTest, and a subtree is recursed into, only
\* under a name that every tree of the level has, with exactly the entries of
\* that name; once the walk has started scores change nowhere but inside
\* scoreTest, so a name missing from some tree adds nothing to any score.
C4_MissingNameIgnored ==
    [][/\ (pc = "tests" /\ pc' = "scoreTest") =>
              \E name \in Names :
                  /\ InAll(name)
                  /\ browserTests' = [i \in 1..Width |-> ValuesOf(i)[name]]
       /\ (pc = "subtrees" /\ Len(stack') > Len(stack)) =>
              \E name \in Names :
                  /\ InAll(name)
                  /\ stack'[Len(stack')].trees = [i \in 1..Width |-> ValuesOf(i)[name]]
       /\ (pc # "validate" /\ scores' # scores) => pc \in {"scoreTest", "subtests"}]_vars

\* the walk is over: the first browser has a failing test under a name the
\* second browser lacks and another under a name the second browser passes,
\* and it scored one point
C4_Witness ==
    /\ pc = "done"
    /\ Len(runs) = 2
    /\ \E name \in DOMAIN Root(1).tests :
          /\ name \notin DOMAIN Root(2).tests
          /\ heap[Root(1).tests[name]].status = "FAIL"
    /\ \E name \in DOMAIN Root(1).tests :
          /\ name \in DOMAIN Root(2).tests
          /\ heap[Root(1).tests[name]].status = "FAIL"
          /\ heap[Root(2).tests[name]].status = "PASS"
    /\ scores = <<Scale, 0>>

\* C7: when a loop of walkTrees ends because an iterator is exhausted, no name
\* still ahead in another iterator is present in all N trees of the level.
C7_Intersection ==
    (pc \in {"tests", "subtrees"} /\ ~AllRemain) =>
        \A i \in 1..Width : \A name \in KeysAhead(i) : ~InAll(name)

RECURSIVE DeepEqual(_, _)
\* the trees r1 and r2 have the same names and the same test content at every level
DeepEqual(r1, r2) ==
    LET t1 == DirHeap[r1]
        t2 == DirHeap[r2]
    IN /\ DOMAIN t1.tests = DOMAIN t2.tests
       /\ DOMAIN t1.trees = DOMAIN t2.trees
       /\ \A name \in DOMAIN t1.tests :
             WalkHeap[t1.tests[name]] = WalkHeap[t2.tests[name]]
       /\ \A name \in DOMAIN t1.trees : DeepEqual(t1.trees[name], t2.trees[name])

\* C9: if all browsers' trees are deeply identical in content, the score of
\* every browser is 0, whether or not the trees share objects.
C9_IdenticalTreesScoreZero ==
    (pc = "done" /\ \A i \in 1..Len(runs) : DeepEqual(runs[i].tree, runs[1].tree))
        => \A i \in 1..Len(runs) : scores[i] = 0

\* the walk is over for trees of equal content made of distinct objects, with
\* a test that has a failing subtest
C9_Witness ==
    /\ pc = "done"
    /\ Len(runs) >= 2
    /\ \A i \in 1..Len(runs) : DeepEqual(runs[i].tree, runs[1].tree)
    /\ runs[1].tree # runs[2].tree
    /\ \E name \in DOMAIN Root(1).tests :
          /\ Root(1).tests[name] # Root(2).tests[name]
          /\ \E k \in 1..Len(heap[Root(1).tests[name]].subtests) :
                heap[Root(1).tests[name]].subtests[k].status = "FAIL"

\* C10: every call on runs that pass validation ends and returns a score map
\* (a call that fails validation ends by throwing).  A loop iteration that
\* advances no iterator is a step that leaves every variable as it is, so a
\* loop that spins shows as a behavior that stays in its state forever.
C10_Terminates == <>(pc \in {"done", "threw"})

---------------------------------------------------------------------------
(* The walk without the identity check *)

RECURSIVE RefSubtests(_, _, _, _)
\* the subtest loop of scoreTest over the sorted arrays subs, from the
\* positions idx on; returns the denominator and the counts
RefSubtests(subs, idx, den, cnts) ==
    IF \E i \in 1..Len(subs) : idx[i] >= Len(subs[i])
    THEN [denominator |-> den, counts |-> cnts]
    ELSE LET cur == [i \in 1..Len(subs) |-> subs[i][idx[i] + 1]]
             names == [i \in 1..Len(subs) |-> cur[i].name]
         IN IF \E i \in 1..Len(subs) : names[i] # names[1]
            THEN RefSubtests(subs, [idx EXCEPT ![SmallestIdx(names)] = @ + 1], den, cnts)
            ELSE RefSubtests(subs, [i \in 1..Len(subs) |-> idx[i] + 1], den + 1,
                    CreditOnlyFailure(cnts,
                        {i \in 1..Len(subs) : IsSubtestFailure(cur[i].status)}, 1))

\* scoreTest(tests, acc) on test objects, returning the updated scores
RefScoreTest(tests, acc) ==
    IF \A i \in 1..Len(tests) : NoSubtests(tests[i])
    THEN CreditOnlyFailure(acc,
            {i \in 1..Len(tests) : IsTestFailure(tests[i].status)}, Scale)
    ELSE IF \A i \in 1..Len(tests) : SomeSubtests(tests[i])
    THEN LET r == RefSubtests([i \in 1..Len(tests) |-> SortSubtests(tests[i].subtests)],
                              Zeros(Len(tests)), 0, Zeros(Len(tests)))
         IN Normalized(acc, r.counts, r.denominator)
    ELSE acc

RECURSIVE RefTests(_, _, _, _)
\* the test loop of walkTrees without its first branch
RefTests(trees, keys, idx, acc) ==
    IF \E i \in 1..Len(trees) : idx[i] >= Len(keys[i])
    THEN acc
    ELSE LET cur == [i \in 1..Len(trees) |-> keys[i][idx[i] + 1]]
         IN IF \A i \in 1..Len(trees) : cur[i] = cur[1]
            THEN RefTests(trees, keys, [i \in 1..Len(trees) |-> idx[i] + 1],
                    RefScoreTest(
                        [i \in 1..Len(trees) |-> WalkHeap[DirHeap[trees[i]].tests[cur[i]]]],
                        acc))
            ELSE RefTests(trees, keys, [idx EXCEPT ![SmallestIdx(cur)] = @ + 1], acc)

RECURSIVE RefSubtrees(_, _, _, _)
RECURSIVE RefWalkTrees(_, _)
\* the subtree loop of walkTrees without its first branch
RefSubtrees(trees, keys, idx, acc) ==
    IF \E i \in 1..Len(trees) : idx[i] >= Len(keys[i])
    THEN acc
    ELSE LET cur == [i \in 1..Len(trees) |-> keys[i][idx[i] + 1]]
         IN IF \A i \in 1..Len(trees) : cur[i] = cur[1]
            THEN RefSubtrees(trees, keys, [i \in 1..Len(trees) |-> idx[i] + 1],
                    RefWalkTrees(
                        [i \in 1..Len(trees) |-> DirHeap[trees[i]].trees[cur[i]]], acc))
            ELSE RefSubtrees(trees, keys, [idx EXCEPT ![SmallestIdx(cur)] = @ + 1], acc)

\* walkTrees(trees, acc) without the identity check, returning the updated scores
RefWalkTrees(trees, acc) ==
    RefSubtrees(trees,
        [i \in 1..Len(trees) |-> SortKeys(DOMAIN DirHeap[trees[i]].trees)],
        Zeros(Len(trees)),
        RefTests(trees,
            [i \in 1..Len(trees) |-> SortKeys(DOMAIN DirHeap[trees[i]].tests)],
            Zeros(Len(trees)), acc))

\* C8: the identity check is only an optimization: the call returns the score
\* map the same walk returns without the check, however objects are shared.
C8_IdentityCheckIsOptimization ==
    pc = "done" =>
        result.map = ScoreMap(runs,
            RefWalkTrees([i \in 1..Len(runs) |-> runs[i].tree], Zeros(Len(runs))))

---------------------------------------------------------------------------
(* The test-level rule, end to end *)

\* the names every root has a test for
CommonTests == {name \in Names : \A i \in 1..Len(runs) : name \in DOMAIN Root(i).tests}

\* browser i is the only one whose status for the test is not PASS
OnlyNotPass(i, name) ==
    /\ heap[Root(i).tests[name]].status # "PASS"
    /\ \A j \in 1..Len(runs) : j # i => heap[Root(j).tests[name]].status = "PASS"

\* the roots have no subtrees, and no browser reports subtests for a common test
OnlyPlainTests ==
    /\ \A i \in 1..Len(runs) : DOMAIN Root(i).trees = {}
    /\ \A name \in CommonTests : \A i \in 1..Len(runs) :
          NoSubtests(heap[Root(i).tests[name]])

\* C1: a test every browser has, without subtests in any, adds exactly one
\* point to browser i if and only if i is the only browser that is not PASS;
\* so over trees of such tests the score of i is the number of those tests.
C1_TestLevelRule ==
    (pc = "done" /\ OnlyPlainTests) =>
        \A i \in 1..Len(runs) :
            scores[i] = Scale * Cardinality({name \in CommonTests : OnlyNotPass(i, name)})

---------------------------------------------------------------------------
(* No iterator is misused (Spec) *)

\* every key iterator of the walk and every array iterator of scoreTest is
\* within its bounds, and only the walk's iterators have keys
IteratorsInBounds ==
    /\ \A f \in 1..Len(stack) : \A i \in 1..Len(stack[f].its) :
          LET it == stack[f].its[i] IN
          /\ ~it.isArray
          /\ it.maxIndex = Len(it.keys)
          /\ it.currentIndex <= it.maxIndex
    /\ \A i \in 1..Len(browserSubtests) :
          LET it == browserSubtests[i] IN
          /\ it.isArray
          /\ it.maxIndex = Len(Test(i).subtests)
          /\ it.currentIndex <= it.maxIndex

\* an iterator of its that has moved in its2 had a next element and moved by one
MovedWithNext(its, its2) ==
    \A i \in 1..Len(its) :
        its2[i].currentIndex # its[i].currentIndex =>
            hasNext(its[i]) /\ its2[i] = next(its[i])

\* C11: once validation has passed no iterator is misused: next() is only
\* called on an iterator that has a next element, keys are only asked of the
\* iterators over mappings, and no iterator ever stands past the end of its
\* values, also when subtest names are duplicated.
C11_NoIteratorError ==
    [][/\ IteratorsInBounds'
       /\ \A f \in 1..Len(stack) :
             (f <= Len(stack') /\ stack'[f].phase = stack[f].phase
                 /\ stack'[f].trees = stack[f].trees)
                 => MovedWithNext(stack[f].its, stack'[f].its)
       /\ (pc = "subtests" /\ pc' = "subtests")
             => MovedWithNext(browserSubtests, browserSubtests')]_vars

\* the subtest loop has run to the end of a subtests array with two subtests
\* of the same name, having aligned one of them
C11_Witness ==
    /\ pc = "subtests"
    /\ N = 2
    /\ \E i \in 1..N :
          /\ Len(Test(i).subtests) = 2
          /\ Test(i).subtests[1].name = Test(i).subtests[2].name
          /\ browserSubtests[i].currentIndex = browserSubtests[i].maxIndex
    /\ denominator = 1
    /\ Len(stack) = 1

\* C12: a scoring call never mutates its input: when it returns every test
\* object, subtests order included, is as it was before the call.
C12_InputUnchanged == pc = "done" => heap = WalkHeap

---------------------------------------------------------------------------
(* One test adds at most one point (SpecScoreTest) *)

\* C14: what one scoreTest call adds to scores[i] lies in [0, 1] (0..Scale
\* units): counts[i] never exceeds denominator, duplicated names included.
C14_AtMostOnePoint ==
    [][/\ pc' = "subtests" =>
             \A i \in 1..Len(counts') : 0 <= counts'[i] /\ counts'[i] <= denominator'
       /\ pc \in {"scoreTest", "subtests"} =>
             \A i \in 1..Len(scores) :
                 0 <= scores'[i] - scores[i] /\ scores'[i] - scores[i] <= Scale]_vars

\* scoreTest returned with a browser credited for every aligned subtest of a
\* test with a duplicated subtest name
C14_Witness ==
    /\ pc = "done"
    /\ Len(scores) = 2
    /\ \E r \in DOMAIN heap :
          /\ Len(heap[r].subtests) = 2
          /\ heap[r].subtests[1].name = heap[r].subtests[2].name
    /\ \E i \in 1..2 : scores[i] = Scale

---------------------------------------------------------------------------
(* Removing a test from one browser (Spec) *)

RECURSIVE ScoredFrom(_, _, _, _)
\* the test loop of walkTrees over the mappings tests (name to test
\* reference), from the positions idx on: the names scoreTest is called for
ScoredFrom(tests, keys, idx, scored) ==
    IF \E i \in 1..Len(tests) : idx[i] >= Len(keys[i])
    THEN scored
    ELSE LET cur == [i \in 1..Len(tests) |-> keys[i][idx[i] + 1]]
             values == [i \in 1..Len(tests) |-> tests[i][cur[i]]]
             all == [i \in 1..Len(tests) |-> idx[i] + 1]
         IN IF \A i \in 1..Len(tests) : values[i] = values[1]
            THEN ScoredFrom(tests, keys, all, scored)
            ELSE IF \A i \in 1..Len(tests) : cur[i] = cur[1]
            THEN ScoredFrom(tests, keys, all, scored \cup {cur[1]})
            ELSE ScoredFrom(tests, keys, [idx EXCEPT ![SmallestIdx(cur)] = @ + 1], scored)

ScoredNames(tests) ==
    ScoredFrom(tests, [i \in 1..Len(tests) |-> SortKeys(DOMAIN tests[i])],
               Zeros(Len(tests)), {})

\* what the test name adds to the scores when the test loop runs over tests
Contribution(tests, name) ==
    IF name \in ScoredNames(tests)
    THEN RefScoreTest([i \in 1..Len(tests) |-> WalkHeap[tests[i][name]]], Zeros(Len(tests)))
    ELSE Zeros(Len(tests))

\* the mapping without the entry of name
Without(mapping, name) == [k \in DOMAIN mapping \ {name} |-> mapping[k]]

\* the tests mappings of the roots
RootTests == [i \in 1..Len(runs) |-> Root(i).tests]

\* C15: removing a test name from one browser's tree never increases what
\* another test name adds to any browser's score.
C15_RemovalMonotone ==
    pc = "done" =>
        \A j \in 1..Len(runs) : \A t \in DOMAIN Root(j).tests :
            \A u \in Names \ {t} : \A i \in 1..Len(runs) :
                Contribution([RootTests EXCEPT ![j] = Without(@, t)], u)[i]
                    <= Contribution(RootTests, u)[i]

---------------------------------------------------------------------------
(* Pass rates (lib/browser-pass-rate.js) *)

\* The id of a tree or test object is its reference: the loader gives one id
\* to one object.  st is the state a call works on:
\* [heap, treesScoreCache, testsScoreCache, treeScoreCache, testScoreCache].

\* mutant: the count of passing subtests is not divided by their number
scoreSubtests_NoDivision(test) ==
    Cardinality({k \in 1..Len(test.subtests) : test.subtests[k].status = "PASS"}) * Scale

\* count / denominator over the subtests of the test, in units of 1/Scale
scoreSubtests(test) ==
    LET count == Cardinality({k \in 1..Len(test.subtests) : test.subtests[k].status = "PASS"})
        den == Len(test.subtests)
    IN IF den = 0 THEN 0 ELSE (count * Scale) \div den

\* scoreTest(test) of the pass-rate scorer
PassRateScoreTest(id, st) ==
    IF id \in DOMAIN st.testScoreCache
    THEN [score |-> st.testScoreCache[id], st |-> st]
    ELSE LET test == st.heap[id]
             score == IF SomeSubtests(test) THEN scoreSubtests(test)
                      ELSE IF test.status = "PASS" THEN Scale ELSE 0
         IN [score |-> score,
             st |-> [st EXCEPT !.testScoreCache = CacheSet(@, id, score)]]

RECURSIVE PassRateTests(_, _, _, _, _)
\* for (const testName in tree.tests), from the k-th name on; the sum and the
\* cache entries do not depend on the order of the names
PassRateTests(tests, names, k, score, st) ==
    IF k > Len(names) THEN [score |-> score, st |-> st]
    ELSE LET r == PassRateScoreTest(tests[names[k]], st)
         IN PassRateTests(tests, names, k + 1, score + r.score, r.st)

RECURSIVE PassRateTrees(_, _, _, _, _)
RECURSIVE walkTree(_, _)
\* for (const subtreeName in tree.trees), from the k-th name on
PassRateTrees(trees, names, k, score, st) ==
    IF k > Len(names) THEN [score |-> score, st |-> st]
    ELSE LET r == walkTree(trees[names[k]], st)
         IN PassRateTrees(trees, names, k + 1, score + r.score, r.st)

\* walkTree(tree) of the pass-rate scorer
walkTree(id, st) ==
    IF id \in DOMAIN st.treeScoreCache
    THEN [score |-> st.treeScoreCache[id], st |-> st]
    ELSE LET tree == DirHeap[id]
             t == PassRateTests(tree.tests, SortKeys(DOMAIN tree.tests), 1, 0, st)
             u == PassRateTrees(tree.trees, SortKeys(DOMAIN tree.trees), 1, t.score, t.st)
         IN [score |-> u.score,
             st |-> [u.st EXCEPT !.treeScoreCache = CacheSet(@, id, u.score)]]

RECURSIVE PassRateRuns(_, _, _, _)
\* runs.map(run => walkTree(run.tree)), from run i on
PassRateRuns(rs, i, acc, st) ==
    IF i > Len(rs) THEN [scores |-> acc, st |-> st]
    ELSE LET r == walkTree(rs[i].tree, st)
         IN PassRateRuns(rs, i + 1, Append(acc, r.score), r.st)

\* mutant: the trees are walked before the runs are validated
PassRatesOutcome_WalkFirst(rs, expected, st) ==
    LET v == ValidateRuns(rs, expected)
        r == PassRateRuns(rs, 1, <<>>, st)
    IN IF v.kind # "ok"
       THEN [result |-> v, st |-> r.st]
       ELSE [result |-> [kind |-> "scores", map |-> ScoreMap(rs, r.scores)], st |-> r.st]

\* scoreBrowserPassRates(runs, expectedBrowsers): what it returns or throws,
\* and the state it leaves
PassRatesOutcome(rs, expected, st) ==
    LET v == ValidateRuns(rs, expected)
        r == PassRateRuns(rs, 1, <<>>, st)
    IN IF v.kind # "ok"
       THEN [result |-> v, st |-> st]
       ELSE [result |-> [kind |-> "scores", map |-> ScoreMap(rs, r.scores)], st |-> r.st]

\* the state of a process that has scored nothing yet, over the objects h
FreshState(h) ==
    [ heap |-> h,
      treesScoreCache |-> EmptyCache,
      testsScoreCache |-> EmptyCache,
      treeScoreCache |-> EmptyCache,
      testScoreCache |-> EmptyCache ]

---------------------------------------------------------------------------
(* The cached version of the browser-specific-failure scorer *)

\* scores.map((v, i) => v + other[i])
AddScores(acc, other) == [i \in 1..Len(acc) |-> acc[i] + other[i]]

\* the heap after scoreTest built its iterators over the tests ids: every
\* subtests array sorted in place, when the subtest-level branch is taken
HeapAfterScoreTest(h, ids) ==
    IF /\ ~(\A i \in 1..Len(ids) : NoSubtests(h[ids[i]]))
       /\ \A i \in 1..Len(ids) : SomeSubtests(h[ids[i]])
    THEN [r \in DOMAIN h |->
             IF r \in Range(ids) THEN [h[r] EXCEPT !.subtests = SortSubtests(@)] ELSE h[r]]
    ELSE h

RECURSIVE Join(_, _)
\* ids.join(separator), the ids written as decimal numbers
Join(ids, separator) ==
    IF ids = <<>> THEN ""
    ELSE IF Len(ids) = 1 THEN ToString(ids[1])
    ELSE ToString(ids[1]) \o separator \o Join(Tail(ids), separator)

RECURSIVE Ascending(_)
\* the ids in ascending order
Ascending(ids) ==
    IF ids = <<>> THEN <<>>
    ELSE LET k == CHOOSE i \in 1..Len(ids) : \A j \in 1..Len(ids) : ids[i] <= ids[j]
         IN <<ids[k]>> \o Ascending([i \in 1..(Len(ids) - 1) |->
                                        IF i < k THEN ids[i] ELSE ids[i + 1]])

\* mutant: the key does not depend on the order of the ids
CacheKey_Sorted(ids) == Join(Ascending(ids), "-")

\* nodes.map(node => node.id).join('-')
CacheKey(ids) == Join(ids, "-")

\* scoreTest(browserTests) of the cached version: the score array of the tests
CachedScoreTest(ids, st) ==
    IF CacheKey(ids) \in DOMAIN st.testsScoreCache
    THEN [scores |-> st.testsScoreCache[CacheKey(ids)], st |-> st]
    ELSE LET sc == RefScoreTest([i \in 1..Len(ids) |-> st.heap[ids[i]]], Zeros(Len(ids)))
         IN [scores |-> sc,
             st |-> [st EXCEPT !.heap = HeapAfterScoreTest(@, ids),
                               !.testsScoreCache = CacheSet(@, CacheKey(ids), sc)]]

RECURSIVE CachedTests(_, _, _, _, _)
\* the test loop of walkTrees (cached version), from the positions idx on
CachedTests(trees, keys, idx, acc, st) ==
    IF \E i \in 1..Len(trees) : idx[i] >= Len(keys[i])
    THEN [scores |-> acc, st |-> st]
    ELSE LET cur == [i \in 1..Len(trees) |-> keys[i][idx[i] + 1]]
             values == [i \in 1..Len(trees) |-> DirHeap[trees[i]].tests[cur[i]]]
             all == [i \in 1..Len(trees) |-> idx[i] + 1]
         IN IF \A i \in 1..Len(trees) : values[i] = values[1]
            THEN CachedTests(trees, keys, all, acc, st)
            ELSE IF \A i \in 1..Len(trees) : cur[i] = cur[1]
            THEN LET r == CachedScoreTest(values, st)
                 IN CachedTests(trees, keys, all, AddScores(acc, r.scores), r.st)
            ELSE CachedTests(trees, keys, [idx EXCEPT ![SmallestIdx(cur)] = @ + 1], acc, st)

RECURSIVE CachedSubtrees(_, _, _, _, _)
RECURSIVE CachedWalkTrees(_, _)
\* the subtree loop of walkTrees (cached version), from the positions idx on
CachedSubtrees(trees, keys, idx, acc, st) ==
    IF \E i \in 1..Len(trees) : idx[i] >= Len(keys[i])
    THEN [scores |-> acc, st |-> st]
    ELSE LET cur == [i \in 1..Len(trees) |-> keys[i][idx[i] + 1]]
             values == [i \in 1..Len(trees) |-> DirHeap[trees[i]].trees[cur[i]]]
             all == [i \in 1..Len(trees) |-> idx[i] + 1]
         IN IF \A i \in 1..Len(trees) : values[i] = values[1]
            THEN CachedSubtrees(trees, keys, all, acc, st)
            ELSE IF \A i \in 1..Len(trees) : cur[i] = cur[1]
            THEN LET r == CachedWalkTrees(values, st)
                 IN CachedSubtrees(trees, keys, all, AddScores(acc, r.scores), r.st)
            ELSE CachedSubtrees(trees, keys, [idx EXCEPT ![SmallestIdx(cur)] = @ + 1], acc, st)

\* walkTrees(browserTrees) of the cached version: the score array of the trees
CachedWalkTrees(trees, st) ==
    IF CacheKey(trees) \in DOMAIN st.treesScoreCache
    THEN [scores |-> st.treesScoreCache[CacheKey(trees)], st |-> st]
    ELSE LET t == CachedTests(trees,
                     [i \in 1..Len(trees) |-> SortKeys(DOMAIN DirHeap[trees[i]].tests)],
                     Zeros(Len(trees)), Zeros(Len(trees)), st)
             u == CachedSubtrees(trees,
                     [i \in 1..Len(trees) |-> SortKeys(DOMAIN DirHeap[trees[i]].trees)],
                     Zeros(Len(trees)), t.scores, t.st)
         IN [scores |-> u.scores,
             st |-> [u.st EXCEPT !.treesScoreCache = CacheSet(@, CacheKey(trees), u.scores)]]

\* scoreBrowserSpecificFailures(runs, expectedBrowsers) of the cached version,
\* for at least one run: what it returns or throws, and the state it leaves
CachedOutcome(rs, expected, st) ==
    LET v == ValidateRuns(rs, expected)
        r == CachedWalkTrees([i \in 1..Len(rs) |-> rs[i].tree], st)
    IN IF v.kind # "ok"
       THEN [result |-> v, st |-> st]
       ELSE [result |-> [kind |-> "scores", map |-> ScoreMap(rs, r.scores)], st |-> r.st]

---------------------------------------------------------------------------
(* Calls of the three scorers in one process (SpecCalls) *)

Scorers == {"bsf", "bsfCached", "passRates"}

\* the state a call works on
StateOfCall ==
    [ heap |-> heap,
      treesScoreCache |-> treesScoreCache,
      testsScoreCache |-> testsScoreCache,
      treeScoreCache |-> treeScoreCache,
      testScoreCache |-> testScoreCache ]

\* the call ends with the outcome o
Returned(o) ==
    /\ pc' = IF o.result.kind = "scores" THEN "done" ELSE "threw"
    /\ result' = o.result
    /\ heap' = o.st.heap
    /\ treesScoreCache' = o.st.treesScoreCache
    /\ testsScoreCache' = o.st.testsScoreCache
    /\ treeScoreCache' = o.st.treeScoreCache
    /\ testScoreCache' = o.st.testScoreCache

\* one call of scoreBrowserSpecificFailures, cached version.  With no runs and
\* no expected browsers validation passes and walkTrees never leaves its test
\* loop (every() of nothing is true): the call stays there.
CallCached ==
    /\ pc = "validate"
    /\ scorer = "bsfCached"
    /\ IF Len(runs) = 0 /\ ValidateRuns(runs, expectedBrowsers).kind = "ok"
       THEN /\ pc' = "cachedTests"
            /\ UNCHANGED <<result, heap, cacheVars>>
       ELSE Returned(CachedOutcome(runs, expectedBrowsers, StateOfCall))
    /\ UNCHANGED <<restVars, scorer, history, runs, expectedBrowsers, stack, browserTests,
                   browserSubtests, denominator, counts, scores>>

\* one call of scoreBrowserPassRates
CallPassRates ==
    /\ pc = "validate"
    /\ scorer = "passRates"
    /\ Returned(PassRatesOutcome(runs, expectedBrowsers, StateOfCall))
    /\ UNCHANGED <<restVars, scorer, history, runs, expectedBrowsers, stack, browserTests,
                   browserSubtests, denominator, counts, scores>>

\* the caller notes the outcome and calls a scorer again on the same runs
CallAgain ==
    /\ pc \in {"done", "threw"}
    /\ Len(history) < MaxCalls - 1
    /\ history' = Append(history, [scorer |-> scorer, result |-> result])
    /\ scorer' \in Scorers
    /\ pc' = "validate"
    /\ result' = [kind |-> "none"]
    /\ scores' = <<>>
    /\ UNCHANGED <<restVars, cacheVars, runs, expectedBrowsers, heap, stack, browserTests,
                   browserSubtests, denominator, counts>>

InitCalls ==
    /\ InitValidRuns \/ InitAnyBrowsers
    /\ pc = "validate"
    /\ heap = WalkHeap
    /\ stack = <<>>
    /\ browserTests = <<>>
    /\ browserSubtests = <<>>
    /\ denominator = 0
    /\ counts = <<>>
    /\ scores = <<>>
    /\ result = [kind |-> "none"]
    /\ scorer \in Scorers
    /\ NoCaches
    /\ history = <<>>
    /\ RestIdle

NextCalls ==
    \/ Next
    \/ CallCached
    \/ CallPassRates
    \/ CallAgain

SpecCalls == InitCalls /\ [][NextCalls]_vars

---------------------------------------------------------------------------
(* Claims about calls (SpecCalls) *)

\* the call before this one
LastCall == history[Len(history)]

\* C13: a scorer called twice in a row on the same runs and expected browsers
\* returns the same score map both times (and throws the same if it throws).
C13_SameTwice ==
    (pc \in {"done", "threw"} /\ Len(history) >= 1 /\ LastCall.scorer = scorer)
        => result = LastCall.result

\* the un-cached scorer has returned the same non-zero scores a second time,
\* the first call having sorted a subtests array
C13_Witness ==
    /\ pc = "done"
    /\ Len(history) >= 1
    /\ LastCall.scorer = "bsf"
    /\ scorer = "bsf"
    /\ heap # WalkHeap
    /\ \E name \in DOMAIN result.map : result.map[name] > 0
    /\ result = LastCall.result

---------------------------------------------------------------------------
(* Validation (SpecCalls) *)

\* the browser names of the runs
RunNames == {runs[i].browser_name : i \in 1..Len(runs)}

\* run i has an unexpected browser, or the browser of an earlier run
Offender(i) ==
    \/ runs[i].browser_name \notin expectedBrowsers
    \/ \E j \in 1..(i - 1) : runs[j].browser_name = runs[i].browser_name

Offenders == {i \in 1..Len(runs) : Offender(i)}

\* the first run, in the order of runs, that validation objects to
FirstOffender == CHOOSE i \in Offenders : \A j \in Offenders : i <= j

\* validation is over
Validated == pc # "validate"

\* C16: validation throws nothing when runs has exactly one run for each
\* expected browser and no other run, and throws in every other case.
C16_ThrowsUnlessExact ==
    Validated =>
        (pc # "threw" <=>
            (RunNames = expectedBrowsers /\ Cardinality(RunNames) = Len(runs)))

\* a call threw although every expected browser has a run: one has two
C16_Witness ==
    /\ pc = "threw"
    /\ RunNames = expectedBrowsers
    /\ Len(runs) > Cardinality(RunNames)

\* C17 as stated: whenever some run's browser is not expected, validation
\* fails with UnexpectedBrowser, naming such a browser.
C17_UnexpectedAlways ==
    (Validated /\ \E i \in 1..Len(runs) : runs[i].browser_name \notin expectedBrowsers)
        => /\ result.kind = "UnexpectedBrowser"
           /\ result.names \subseteq RunNames \ expectedBrowsers

\* C17 amended: validation fails with UnexpectedBrowser exactly when the first
\* run that is unexpected or repeats an earlier run is unexpected, and the
\* error names the browser of that run.
C17_UnexpectedIfFirst ==
    Validated =>
        /\ result.kind = "UnexpectedBrowser" <=>
              (Offenders # {} /\ runs[FirstOffender].browser_name \notin expectedBrowsers)
        /\ result.kind = "UnexpectedBrowser" =>
              result.names = {runs[FirstOffender].browser_name}

\* a call threw UnexpectedBrowser for a run that comes before a repeated browser
C17_Witness ==
    /\ pc = "threw"
    /\ result.kind = "UnexpectedBrowser"
    /\ \E i \in Offenders : runs[i].browser_name \in expectedBrowsers

\* C18 as stated: whenever a browser name appears in more than one run,
\* validation fails with DuplicateBrowser.
C18_DuplicateAlways ==
    (Validated /\ Cardinality(RunNames) < Len(runs))
        => result.kind = "DuplicateBrowser"

\* C18 amended: validation fails with DuplicateBrowser exactly when the first
\* run that is unexpected or repeats an earlier run is an expected browser seen
\* before, and the error names that browser.
C18_DuplicateIfFirst ==
    Validated =>
        /\ result.kind = "DuplicateBrowser" <=>
              (Offenders # {} /\ runs[FirstOffender].browser_name \in expectedBrowsers)
        /\ result.kind = "DuplicateBrowser" =>
              result.names = {runs[FirstOffender].browser_name}

\* a call threw DuplicateBrowser for a run that comes before an unexpected browser
C18_Witness ==
    /\ pc = "threw"
    /\ result.kind = "DuplicateBrowser"
    /\ \E i \in Offenders : runs[i].browser_name \notin expectedBrowsers

\* C19: validation fails with MissingBrowser exactly when no run is unexpected
\* or repeated and fewer browsers were seen than are expected, and the error
\* lists exactly the expected browsers that have no run.
C19_MissingExactly ==
    Validated =>
        /\ result.kind = "MissingBrowser" <=>
              (Offenders = {} /\ Cardinality(RunNames) < Cardinality(expectedBrowsers))
        /\ result.kind = "MissingBrowser" =>
              result.names = expectedBrowsers \ RunNames

\* a call threw MissingBrowser listing two of three expected browsers
C19_Witness ==
    /\ pc = "threw"
    /\ result.kind = "MissingBrowser"
    /\ Len(runs) = 1
    /\ Cardinality(result.names) = 2
    /\ Cardinality(expectedBrowsers) = 3

---------------------------------------------------------------------------
(* A failed validation leaves no trace (SpecCalls) *)

ValidationErrors == {"UnexpectedBrowser", "DuplicateBrowser", "MissingBrowser"}

\* C20: a call that fails validation throws before any scoring step: it
\* returns no score map, has built no iterator, has left every test object
\* as it was and has added nothing to any score cache.
C20_FailureBeforeScoring ==
    [][(pc' = "threw" /\ pc # "threw") =>
          /\ pc = "validate"
          /\ result'.kind \in ValidationErrors
          /\ stack' = <<>> /\ stack = <<>>
          /\ browserSubtests' = <<>> /\ browserSubtests = <<>>
          /\ heap' = heap
          /\ UNCHANGED cacheVars]_vars

\* a pass-rate call threw over trees that hold tests, and the caches are
\* empty and the test objects as they were
C20_Witness ==
    /\ pc = "threw"
    /\ scorer = "passRates"
    /\ Len(runs) >= 2
    /\ \A i \in 1..Len(runs) : runs[i].tree # EmptyDir
    /\ heap = WalkHeap
    /\ NoCaches

---------------------------------------------------------------------------
(* Claims about the pass rates (SpecCalls) *)

\* what one test adds to a pass rate, in units of 1/Scale
PassContribution(test) ==
    IF test.hasSubtests /\ Len(test.subtests) >= 1
    THEN (Cardinality({k \in 1..Len(test.subtests) : test.subtests[k].status = "PASS"})
             * Scale) \div Len(test.subtests)
    ELSE IF test.status = "PASS" THEN Scale ELSE 0

RECURSIVE SumOfNames(_, _, _)
\* the sum of f[mapping[name]] over the names of the set
SumOfNames(mapping, names, f) ==
    IF names = {} THEN 0
    ELSE LET name == CHOOSE n \in names : TRUE
         IN f[mapping[name]] + SumOfNames(mapping, names \ {name}, f)

RECURSIVE TreeTotal(_, _)
\* the sum of the contributions of every test anywhere in the tree
TreeTotal(id, h) ==
    LET tree == DirHeap[id]
    IN SumOfNames(tree.tests, DOMAIN tree.tests,
                  [r \in DOMAIN h |-> PassContribution(h[r])])
       + SumOfNames(tree.trees, DOMAIN tree.trees,
                    [r \in {tree.trees[n] : n \in DOMAIN tree.trees} |-> TreeTotal(r, h)])

\* C21: scoreBrowserPassRates maps every run's browser to the un-normalized
\* sum, over every test anywhere in that run's tree, of 1 or 0 for a test
\* without subtests (PASS or not) and of passing / all for a test with
\* subtests; the value depends on that browser's tree alone, whatever was
\* scored before.
C21_PassRateIsSum ==
    (pc = "done" /\ scorer = "passRates") =>
        /\ DOMAIN result.map = {runs[i].browser_name : i \in 1..Len(runs)}
        /\ \A i \in 1..Len(runs) :
              result.map[runs[i].browser_name] = TreeTotal(runs[i].tree, heap)

\* pass rates returned after an earlier call filled the caches: one browser
\* with more than one point from a nested tree, one with half a point
C21_Witness ==
    /\ pc = "done"
    /\ scorer = "passRates"
    /\ Len(history) >= 1
    /\ LastCall.scorer = "passRates"
    /\ \E i, j \in 1..Len(runs) :
          /\ result.map[runs[i].browser_name] > Scale
          /\ DOMAIN DirHeap[runs[i].tree].trees # {}
          /\ result.map[runs[j].browser_name] * 2 = Scale

---------------------------------------------------------------------------
(* An empty subtests array (SpecScoreTest) *)

\* the same test with no subtests field, when its subtests array is empty
WithoutField(t) == IF Len(t.subtests) = 0 THEN Leaf(t.status) ELSE t

\* the pass-rate score of a test object scored first in a process
PassRateOf(t) == PassRateScoreTest(1, FreshState(<<t>>)).score

\* C22: a test whose subtests array is empty is scored like the same test
\* with no subtests field.  The browser-specific-failure scoreTest chooses
\* between the test-level rule, the subtest-level rule and the mixed case as
\* it would with the field removed, and the pass-rate scoreTest gives the
\* test 1 if its status is PASS and 0 otherwise.
C22_EmptySubtestsIsNoSubtests ==
    [][pc = "scoreTest" =>
          LET plain == [i \in 1..N |-> WithoutField(Test(i))]
              failed == {i \in 1..N : plain[i].status # "PASS"}
          IN /\ (pc' = "subtests") <=> (\A i \in 1..N : plain[i].hasSubtests)
             /\ (\A i \in 1..N : ~plain[i].hasSubtests) =>
                    scores' = CreditOnlyFailure(scores, failed, Scale)
             /\ (\E i, j \in 1..N : plain[i].hasSubtests /\ ~plain[j].hasSubtests) =>
                    scores' = scores
             /\ \A i \in 1..N :
                    /\ PassRateOf(Test(i)) = PassRateOf(plain[i])
                    /\ Len(Test(i).subtests) = 0 =>
                           PassRateOf(Test(i)) = IF Test(i).status = "PASS" THEN Scale ELSE 0]_vars

\* scoreTest returned from the test-level branch with the only failing browser
\* credited, one test having an empty subtests array and one no such field
C22_Witness ==
    /\ pc = "done"
    /\ stack = <<>>
    /\ \E r, q \in DOMAIN heap :
          /\ heap[r] = WithSubtests("FAIL", <<>>)
          /\ heap[q] = Leaf("PASS")
          /\ Len(scores) = 2
          /\ scores[r] = Scale

---------------------------------------------------------------------------
(* One credit per test and subtest (SpecScoreTest) *)

RECURSIVE SumSeq(_)
\* the sum of the elements of a sequence of numbers
SumSeq(s) == IF s = <<>> THEN 0 ELSE s[1] + SumSeq(Tail(s))

\* C27: within one scoreTest call every aligned subtest, and every test
\* without subtests, is credited to at most one browser: the counts of all
\* browsers together never exceed denominator, and what the call adds to the
\* scores of all browsers together is at most 1.
C27_CreditedToAtMostOne ==
    [][/\ pc' = "subtests" => SumSeq(counts') <= denominator'
       /\ (pc = "subtests" /\ pc' = "subtests") =>
             /\ Cardinality({i \in 1..N : counts'[i] # counts[i]}) <= 1
             /\ SumSeq(counts') - SumSeq(counts) <= denominator' - denominator
       /\ (pc = "scoreTest" /\ pc' # "subtests") =>
             Cardinality({i \in 1..N : scores'[i] # scores[i]}) <= 1
       /\ pc \in {"scoreTest", "subtests"} =>
             /\ SumSeq(scores') - SumSeq(scores) <= Scale
             /\ SumSeq(scores') >= SumSeq(scores)]_vars

\* scoreTest returned with two browsers credited for different subtests of
\* one test, a whole point between them
C27_Witness ==
    /\ pc = "done"
    /\ stack = <<>>
    /\ Len(scores) = 3
    /\ SumSeq(scores) = Scale
    /\ \E i, j \in 1..3 : i # j /\ scores[i] > 0 /\ scores[j] > 0

---------------------------------------------------------------------------
(* The skip step (Spec) *)

\* the iterators of its that the step to its2 moved
Moved(its, its2) == {i \in 1..Len(its) : its2[i] # its[i]}

\* the names the subtest iterator i has not moved past
SubtestsAhead(i) ==
    {Test(i).subtests[k].name :
        k \in (browserSubtests[i].currentIndex + 1)..browserSubtests[i].maxIndex}

\* C25: a skip step of walkTrees (tests, subtrees) and of scoreTest (subtests)
\* advances exactly one iterator, one whose current key is smallest, in the
\* order the elements were sorted in, among the current keys of all
\* iterators; so no iterator is advanced past a name that another iterator
\* still has at or ahead of its cursor.
C25_SkipAdvancesSmallest ==
    [][/\ (/\ pc \in {"tests", "subtrees"}
           /\ pc' = pc
           /\ Len(stack') = Len(stack)
           /\ AllRemain /\ ~HaveSameValue /\ ~HaveSameKey) =>
             \E i \in 1..Width :
                 /\ Moved(Top.its, stack'[Len(stack')].its) = {i}
                 /\ stack'[Len(stack')].its[i] = next(Top.its[i])
                 /\ \A j \in 1..Width : LocaleLeq(KeyAt(i), KeyAt(j))
                 /\ \A j \in 1..Width : j # i => KeyAt(i) \notin KeysAhead(j)
       /\ (pc = "subtests" /\ pc' = "subtests" /\ SubtestsRemain /\ SubtestsMisaligned) =>
             \E i \in 1..N :
                 /\ Moved(browserSubtests, browserSubtests') = {i}
                 /\ browserSubtests'[i] = next(browserSubtests[i])
                 /\ \A j \in 1..N : LocaleLeq(SubtestAt(i).name, SubtestAt(j).name)
                 /\ \A j \in 1..N : j # i => SubtestAt(i).name \notin SubtestsAhead(j)]_vars

---------------------------------------------------------------------------
(* Reordering the runs (Spec) *)

\* the permutations of 1..n
Orders(n) == {p \in [1..n -> 1..n] : \A i, j \in 1..n : p[i] = p[j] => i = j}

\* the runs in the order p
Reordered(rs, p) == [i \in 1..Len(rs) |-> rs[p[i]]]

\* C28: scoreBrowserSpecificFailures maps every browser name to the same
\* score whatever the order of the runs array.
C28_OrderOfRunsIrrelevant ==
    (pc = "done" /\ Len(runs) >= 1) =>
        \A p \in Orders(Len(runs)) :
            CachedOutcome(Reordered(runs, p), expectedBrowsers, FreshState(heap)).result
                = result

---------------------------------------------------------------------------
(* The un-cached version as a function of its input *)

RECURSIVE UncachedTests(_, _, _, _, _)
\* the test loop of walkTrees (un-cached version), from the positions idx on
UncachedTests(trees, keys, idx, acc, h) ==
    IF \E i \in 1..Len(trees) : idx[i] >= Len(keys[i])
    THEN acc
    ELSE LET cur == [i \in 1..Len(trees) |-> keys[i][idx[i] + 1]]
             values == [i \in 1..Len(trees) |-> DirHeap[trees[i]].tests[cur[i]]]
             all == [i \in 1..Len(trees) |-> idx[i] + 1]
         IN IF \A i \in 1..Len(trees) : values[i] = values[1]
            THEN UncachedTests(trees, keys, all, acc, h)
            ELSE IF \A i \in 1..Len(trees) : cur[i] = cur[1]
            THEN UncachedTests(trees, keys, all,
                    RefScoreTest([i \in 1..Len(trees) |-> h[values[i]]], acc), h)
            ELSE UncachedTests(trees, keys, [idx EXCEPT ![SmallestIdx(cur)] = @ + 1], acc, h)

RECURSIVE UncachedSubtrees(_, _, _, _, _)
RECURSIVE UncachedWalkTrees(_, _, _)
\* the subtree loop of walkTrees (un-cached version), from the positions idx on
UncachedSubtrees(trees, keys, idx, acc, h) ==
    IF \E i \in 1..Len(trees) : idx[i] >= Len(keys[i])
    THEN acc
    ELSE LET cur == [i \in 1..Len(trees) |-> keys[i][idx[i] + 1]]
             values == [i \in 1..Len(trees) |-> DirHeap[trees[i]].trees[cur[i]]]
             all == [i \in 1..Len(trees) |-> idx[i] + 1]
         IN IF \A i \in 1..Len(trees) : values[i] = values[1]
            THEN UncachedSubtrees(trees, keys, all, acc, h)
            ELSE IF \A i \in 1..Len(trees) : cur[i] = cur[1]
            THEN UncachedSubtrees(trees, keys, all, UncachedWalkTrees(values, acc, h), h)
            ELSE UncachedSubtrees(trees, keys, [idx EXCEPT ![SmallestIdx(cur)] = @ + 1], acc, h)

\* walkTrees(browserTrees, scores) of the un-cached version, for at least one tree
UncachedWalkTrees(trees, acc, h) ==
    UncachedSubtrees(trees,
        [i \in 1..Len(trees) |-> SortKeys(DOMAIN DirHeap[trees[i]].trees)],
        Zeros(Len(trees)),
        UncachedTests(trees,
            [i \in 1..Len(trees) |-> SortKeys(DOMAIN DirHeap[trees[i]].tests)],
            Zeros(Len(trees)), acc, h),
        h)

\* scoreBrowserSpecificFailures(runs, expectedBrowsers) of the un-cached version
UncachedOutcome(rs, expected, h) ==
    LET v == ValidateRuns(rs, expected)
    IN IF v.kind # "ok" THEN v
       ELSE [kind |-> "scores",
             map |-> ScoreMap(rs, UncachedWalkTrees([i \in 1..Len(rs) |-> rs[i].tree],
                                                     Zeros(Len(rs)), h))]

\* scoreBrowserPassRates(runs, expectedBrowsers) without its caches
UncachedPassRates(rs, expected, h) ==
    LET v == ValidateRuns(rs, expected)
    IN IF v.kind # "ok" THEN v
       ELSE [kind |-> "scores",
             map |-> ScoreMap(rs, [i \in 1..Len(rs) |-> TreeTotal(rs[i].tree, h)])]

---------------------------------------------------------------------------
(* Calls on one run set after another (SpecSessions) *)

\* the scorers that keep caches
CachingScorers == {"bsfCached", "passRates"}

\* the trees of the run sets: roots that share subtrees and tests, one of
\* them the subtree of another
SessionDirs ==
    {r \in DirRefs : DirHeap[r] \in
        { Dir("a" :> 1, NoEntries), Dir("a" :> 2, NoEntries),
          Dir("a" :> 4, NoEntries), Dir("a" :> 5, NoEntries),
          Dir(NoEntries, "a" :> 2),
          Dir("a" :> 1, "a" :> 3 @@ "b" :> 2) }}

\* a valid run set over the trees of the sessions
SessionRuns ==
    UNION {{[i \in 1..n |-> Run(i, roots[i])] : roots \in [1..n -> SessionDirs]} :
              n \in 1..MaxRuns}

\* the caller notes the outcome and calls a scorer on another run set
CallOther ==
    /\ pc \in {"done", "threw"}
    /\ Len(history) < MaxCalls - 1
    /\ history' = Append(history, [scorer |-> scorer, result |-> result])
    /\ scorer' \in CachingScorers
    /\ runs' \in SessionRuns
    /\ expectedBrowsers' = {runs'[i].browser_name : i \in 1..Len(runs')}
    /\ pc' = "validate"
    /\ result' = [kind |-> "none"]
    /\ UNCHANGED <<restVars, cacheVars, heap, stack, browserTests, browserSubtests,
                   denominator, counts, scores>>

InitSessions ==
    /\ runs \in SessionRuns
    /\ expectedBrowsers = {runs[i].browser_name : i \in 1..Len(runs)}
    /\ pc = "validate"
    /\ heap = WalkHeap
    /\ stack = <<>>
    /\ browserTests = <<>>
    /\ browserSubtests = <<>>
    /\ denominator = 0
    /\ counts = <<>>
    /\ scores = <<>>
    /\ result = [kind |-> "none"]
    /\ scorer \in CachingScorers
    /\ NoCaches
    /\ history = <<>>
    /\ RestIdle

NextSessions ==
    \/ CallCached
    \/ CallPassRates
    \/ CallOther

SpecSessions == InitSessions /\ [][NextSessions]_vars

---------------------------------------------------------------------------
(* Claims about the caches (SpecSessions) *)

\* the ids of the roots of the runs
RootIds == [i \in 1..Len(runs) |-> runs[i].tree]

\* C23: memoization never changes a result.  Ids being references, two nodes
\* with the same id have the same content; every call of a caching scorer, on
\* whatever run sets the caches were filled, returns the score map that the
\* computation without caches returns on the runs of that call.
C23_MemoizationTransparent ==
    [][(pc = "validate" /\ pc' \in {"done", "threw"}) =>
          result' = IF scorer = "bsfCached"
                    THEN UncachedOutcome(runs, expectedBrowsers, heap)
                    ELSE UncachedPassRates(runs, expectedBrowsers, heap)]_vars

\* two calls on different roots returned a credit each, the later one out of
\* an entry the earlier one stored: the roots of one are subtrees of the
\* roots of the other, and one entry holds the only scored test
C23_Witness ==
    /\ pc = "done"
    /\ scorer = "bsfCached"
    /\ Len(history) = 1
    /\ LastCall.scorer = "bsfCached"
    /\ \A i \in 1..Len(runs) : DOMAIN DirHeap[runs[i].tree].trees = {}
    /\ Cardinality(DOMAIN treesScoreCache) = 2
    /\ Cardinality(DOMAIN testsScoreCache) = 1
    /\ \E name \in DOMAIN result.map : result.map[name] > 0
    /\ \E name \in DOMAIN LastCall.result.map : LastCall.result.map[name] > 0

\* C26: the score caches only grow.  A step removes no key of
\* treesScoreCache, testsScoreCache, treeScoreCache or testScoreCache and
\* leaves the value under every key as it was, every element of a score array
\* included; and the key under which a call looks up and stores the entry of
\* its roots is the key of no other ordering of the same ids.
C26_CachesAppendOnly ==
    [][/\ \A c \in 1..4 : \A k \in DOMAIN cacheVars[c] :
             /\ k \in DOMAIN cacheVars'[c]
             /\ cacheVars'[c][k] = cacheVars[c][k]
       /\ (pc = "validate" /\ scorer = "bsfCached") =>
             \A p \in Orders(Len(runs)) :
                 Reordered(RootIds, p) # RootIds =>
                     CacheKey(Reordered(RootIds, p)) # CacheKey(RootIds)]_vars

\* both scorers have been called, the later call adding entries to caches
\* that held entries, and the entries of two orderings of the same pair of
\* roots sit side by side with different score arrays
C26_Witness ==
    /\ pc = "done"
    /\ Len(history) = 1
    /\ scorer = "bsfCached"
    /\ LastCall.scorer = "bsfCached"
    /\ Len(runs) = 2
    /\ CacheKey(RootIds) \in DOMAIN treesScoreCache
    /\ CacheKey(<<RootIds[2], RootIds[1]>>) \in DOMAIN treesScoreCache
    /\ treesScoreCache[CacheKey(RootIds)]
          # treesScoreCache[CacheKey(<<RootIds[2], RootIds[1]>>)]

---------------------------------------------------------------------------
(* scoreReport (SpecReport) *)

\* no call of a tree scorer is under way and none was made
NoScoring ==
    /\ pc = "idle"
    /\ runs = <<>>
    /\ expectedBrowsers = {}
    /\ heap = <<>>
    /\ stack = <<>>
    /\ browserTests = <<>>
    /\ browserSubtests = <<>>
    /\ denominator = 0
    /\ counts = <<>>
    /\ scores = <<>>
    /\ result = [kind |-> "none"]
    /\ scorer = "none"
    /\ NoCaches
    /\ history = <<>>

\* the values null and undefined in the place of a status
Null == "<null>"
Undefined == "<undefined>"

\* The test objects of the reports scoreReport is tried on: every kind of
\* status with and without subtests, and a subtest of a status that no
\* subtest may have.
ReportPool ==
    {Leaf(st) : st \in {"PASS", "FAIL", "ERROR", "NOTRUN", Null, Undefined}}
        \cup { WithSubtests(Null, <<>>),
               WithSubtests("OK", <<Sub("a", "PASS"), Sub("b", "FAIL")>>),
               WithSubtests("TIMEOUT", <<Sub("a", "PASS")>>),
               WithSubtests(Null, <<Sub("a", "PASS")>>),
               WithSubtests(Undefined, <<Sub("a", "PASS")>>),
               WithSubtests("OK", <<Sub("a", "OK")>>) }

\* what scoreTest and scoreSubtest throw
InvalidStatus(error, status) == [kind |-> "threw", error |-> error, status |-> status]

\* what scoreTest returns: [score, total]
Pair(score, total) == [kind |-> "pair", score |-> score, total |-> total]

\* if (test.status === null) test.status = 'ERROR'
Normalize(test) == [test EXCEPT !.status = IF @ = Null THEN "ERROR" ELSE @]

\* scoreTest(test, options) of the report scorer, with the scoreSubtest calls
\* of its loop: the pair it returns or the error it throws
ReportScoreTest(test, opts) ==
    LET status == Normalize(test).status
        subtests == IF test.hasSubtests THEN test.subtests ELSE <<>>
        invalid == {k \in 1..Len(subtests) : subtests[k].status \notin SubtestStatus}
        score == Cardinality({k \in 1..Len(subtests) : subtests[k].status = "PASS"})
    IN IF status \notin TestStatus
       THEN InvalidStatus("Invalid test status", status)
       ELSE IF Len(subtests) > 0
       THEN IF invalid # {}
            THEN InvalidStatus("Invalid subtest status",
                    subtests[CHOOSE k \in invalid : \A j \in invalid : k <= j].status)
            ELSE IF status = "OK" THEN Pair(score, Len(subtests))
            ELSE Pair(IF opts.requireHarnessOK THEN 0 ELSE score, Len(subtests))
       ELSE Pair(IF status = "PASS" THEN 1 ELSE 0, 1)

\* bucket[0] += testScore; bucket[1] += testTotal, on a new bucket [0, 0] if
\* there is none; scores in units of 1/Scale
AddToBucket(b, testScore, testTotal) ==
    IF b = <<>> THEN <<testScore, testTotal>>
    ELSE <<b[1] + testScore, b[2] + testTotal>>

\* one iteration of the loop of scoreReport: the test is scored and added to
\* the bucket of '/'.  The range check of normalizePerTest cannot fail, a
\* score being at most its total.
ReportNextTest ==
    /\ reportPc = "loop"
    /\ position <= Len(results)
    /\ LET r == ReportScoreTest(results[position], options)
       IN /\ r.kind = "pair"
          /\ bucket' = IF options.normalizePerTest
                        THEN AddToBucket(bucket, (r.score * Scale) \div r.total, 1)
                        ELSE AddToBucket(bucket, r.score * Scale, r.total)
    /\ results' = [results EXCEPT ![position] = Normalize(@)]
    /\ position' = position + 1
    /\ UNCHANGED <<scoringVars, fetchVars, loaderVars, reportPc, options, outcome>>

\* one iteration of the loop of scoreReport: scoreTest throws
ReportThrows ==
    /\ reportPc = "loop"
    /\ position <= Len(results)
    /\ LET r == ReportScoreTest(results[position], options)
       IN /\ r.kind = "threw"
          /\ outcome' = r
    /\ results' = [results EXCEPT ![position] = Normalize(@)]
    /\ reportPc' = "threw"
    /\ UNCHANGED <<scoringVars, fetchVars, loaderVars, options, position, bucket>>

\* return dirBuckets.get('/')
ReportReturns ==
    /\ reportPc = "loop"
    /\ position > Len(results)
    /\ outcome' = [kind |-> "value", value |-> bucket]
    /\ reportPc' = "returned"
    /\ UNCHANGED <<scoringVars, fetchVars, loaderVars, results, options, position, bucket>>

\* scoreReport(report, options) on any report of up to MaxResults results,
\* without a test filter and without directories
InitReport ==
    /\ NoScoring
    /\ reportPc = "loop"
    /\ \E n \in 0..MaxResults : results \in [1..n -> ReportPool]
    /\ options \in [normalizePerTest : BOOLEAN, requireHarnessOK : BOOLEAN]
    /\ position = 1
    /\ bucket = <<>>
    /\ outcome = [kind |-> "none"]
    /\ FetchIdle
    /\ LoaderIdle

NextReport ==
    \/ ReportNextTest
    \/ ReportThrows
    \/ ReportReturns

SpecReport == InitReport /\ [][NextReport]_vars

\* C24: the report scorer scores a test whose status is null or missing as
\* if the status were ERROR: scoreTest does not throw 'Invalid test status'
\* for it, returns or throws what it does for the test with status ERROR,
\* and adds [0, 1] to the bucket when the test has no subtests.
C24_NullOrMissingIsError ==
    [][(/\ reportPc = "loop"
        /\ position <= Len(results)
        /\ results[position].status \in {Null, Undefined}) =>
          LET test == results[position]
          IN /\ ~(reportPc' = "threw" /\ outcome'.error = "Invalid test status")
             /\ ReportScoreTest(test, options)
                   = ReportScoreTest([test EXCEPT !.status = "ERROR"], options)
             /\ Len(test.subtests) = 0 =>
                   /\ reportPc' = "loop"
                   /\ bucket' = AddToBucket(bucket, 0, 1)]_vars

---------------------------------------------------------------------------
(* fetchAlignedRunsFromServer (SpecFetch) *)

\* const ranges = experimental ? EXPERIMENTAL_BAD_RANGES : STABLE_BAD_RANGES
RangesOf(ranges, exp) == IF exp THEN ranges.experimental ELSE ranges.stable

\* the day of the moment object obj, 0 being the caller's
DayOf(obj, day, ranges, exp) ==
    IF obj = 0 THEN day ELSE RangesOf(ranges, exp)[obj][2]

\* the day `from` stands at
From == DayOf(fromObject, fromDay, badRanges, experimental)

\* from.add(1, 'days'): the object `from` refers to is moved, in place
AddDay(obj, ranges, exp) ==
    IF obj = 0 THEN ranges
    ELSE IF exp
    THEN [ranges EXCEPT !.experimental[obj][2] = @ + 1]
    ELSE [ranges EXCEPT !.stable[obj][2] = @ + 1]

\* advanceDateToSkipBadDataIfNecessary(date, experimental), date being the
\* object obj: the object it returns, which is the end of the first range
\* that holds the date, or the date itself
advanceDateToSkipBadDataIfNecessary(obj, day, ranges, exp) ==
    LET rs == RangesOf(ranges, exp)
        date == DayOf(obj, day, ranges, exp)
        hits == {k \in 1..Len(rs) : date >= rs[k][1] /\ date < rs[k][2]}
    IN IF hits = {} THEN obj
       ELSE CHOOSE k \in hits : \A j \in hits : k <= j

\* One iteration of the day loop.  formattedFrom is taken, `from` is moved a
\* day on and past bad data, and the runs of formattedFrom are read from the
\* cache file (cached) or, there being none, asked of the server; count is
\* runs.length.  No runs: continue; as many as products: record them.
FetchDay(cached, count) ==
    /\ From < to
    /\ LET formattedFrom == From
           ranges == AddDay(fromObject, badRanges, experimental)
           day == IF fromObject = 0 THEN fromDay + 1 ELSE fromDay
       IN /\ badRanges' = ranges
          /\ fromDay' = day
          /\ fromObject' = advanceDateToSkipBadDataIfNecessary(
                               fromObject, day, ranges, experimental)
          /\ cacheReads' = cacheReads \cup {formattedFrom}
          /\ serverQueries' = IF cached THEN serverQueries
                              ELSE serverQueries \cup {formattedFrom}
          /\ IF count = 0
             THEN UNCHANGED <<fetchPc, alignedRuns>>
             ELSE IF count # Products
             THEN fetchPc' = "threw" /\ UNCHANGED alignedRuns
             ELSE /\ alignedRuns' = (formattedFrom :> count) @@ alignedRuns
                  /\ UNCHANGED fetchPc
    /\ UNCHANGED <<scoringVars, reportVars, loaderVars, to, experimental>>

\* the runs of the day come out of the cache file
FetchDayFromCache ==
    /\ fetchPc = "loop"
    /\ \E count \in {0, 1, Products} : FetchDay(TRUE, count)

\* there is no cache file for the day: the server is asked
FetchDayFromServer ==
    /\ fetchPc = "loop"
    /\ \E count \in {0, 1, Products} : FetchDay(FALSE, count)

\* from < to fails: return alignedRuns
FetchReturns ==
    /\ fetchPc = "loop"
    /\ ~(From < to)
    /\ fetchPc' = "returned"
    /\ UNCHANGED <<scoringVars, reportVars, loaderVars, fromObject, fromDay, to, experimental,
                   badRanges, cacheReads, serverQueries, alignedRuns>>

\* fetchAlignedRunsFromServer(products, from, to, experimental) for any two
\* days and either label
InitFetch ==
    /\ NoScoring
    /\ ReportIdle
    /\ LoaderIdle
    /\ fetchPc = "loop"
    /\ fromObject = 0
    /\ fromDay \in 0..MaxDay
    /\ to \in 0..MaxDay
    /\ experimental \in BOOLEAN
    /\ badRanges = InitialBadRanges
    /\ cacheReads = {}
    /\ serverQueries = {}
    /\ alignedRuns = <<>>

NextFetch ==
    \/ FetchDayFromCache
    \/ FetchDayFromServer
    \/ FetchReturns

SpecFetch == InitFetch /\ [][NextFetch]_vars

\* the day lies in a bad range of the selected label, as the module defines them
InBadRange(day) ==
    \E k \in 1..Len(RangesOf(InitialBadRanges, experimental)) :
        /\ day >= RangesOf(InitialBadRanges, experimental)[k][1]
        /\ day < RangesOf(InitialBadRanges, experimental)[k][2]

\* C30: fetchAlignedRunsFromServer avoids bad data: every day whose cache
\* file it reads, which it asks the server for or which it records in
\* alignedRuns lies outside every bad range [start, end) of the selected
\* label.
C30_AvoidsBadData ==
    \A day \in cacheReads \cup serverQueries \cup DOMAIN alignedRuns : ~InBadRange(day)

---------------------------------------------------------------------------
(* The loader, git-query.js (SpecLoader) *)

\* an entry of a git tree; the name of a blob entry is given without its
\* ending ".json", which readTree strips
Entry(name, isTree, oid) == [name |-> name, isTree |-> isTree, oid |-> oid]

\* The git trees of the repository, by oid: the entries of each.  Every blob
\* is a .json file and every entry a tree or a blob.  t1 and t2 share the
\* subtree t3, t2 has it under two names, and t3 has one blob under two names.
GitTrees ==
    [ t0 |-> <<>>,
      t1 |-> <<Entry("a", FALSE, "b1"), Entry("d", TRUE, "t3")>>,
      t2 |-> <<Entry("d", TRUE, "t3"), Entry("e", TRUE, "t3")>>,
      t3 |-> <<Entry("x", FALSE, "b1"), Entry("y", FALSE, "b2"), Entry("z", FALSE, "b1")>> ]

\* the blobs of the repository, by oid
GitBlobs == {"b1", "b2"}

\* const newTree = {trees: {}, tests: {}}
NewTree(oid) == [oid |-> oid, isTree |-> TRUE, trees |-> <<>>, tests |-> <<>>]

\* const results = JSON.parse(buffer)
NewResults(oid) == [oid |-> oid, isTree |-> FALSE, trees |-> <<>>, tests |-> <<>>]

\* an activation of readTree (isBlob false) or readResults suspended at an
\* await: next is the index of the entry whose value readTree awaits, 0 at
\* the await of entry.getTree()
Frame(isBlob, oid, ref, nextEntry) ==
    [isBlob |-> isBlob, oid |-> oid, ref |-> ref, next |-> nextEntry]

\* The state one call works on: the objects and caches of the module, the
\* suspended activations of the call, the value the innermost await will
\* yield (ret) and the value the call has returned (value, 0 for none).
LoaderState(load) ==
    [ loaded |-> loaded, treeCache |-> treeCache, testCache |-> testCache,
      stack |-> load.stack, ret |-> load.ret, value |-> load.value ]

\* the activation returns ref: to its caller's await, or as the value of the call
Return(st, ref) ==
    LET rest == SubSeq(st.stack, 1, Len(st.stack) - 1)
    IN [st EXCEPT !.stack = rest,
                  !.ret = ref,
                  !.value = IF rest = <<>> THEN ref ELSE 0]

\* readTree and readResults without their caches: every call builds an object
CallEntry_NoCache(st, entry) ==
    IF entry.isTree
    THEN [st EXCEPT !.loaded = Append(@, NewTree(entry.oid)),
                    !.stack = Append(@, Frame(FALSE, entry.oid, Len(st.loaded) + 1, 0))]
    ELSE [st EXCEPT !.stack = Append(@, Frame(TRUE, entry.oid, 0, 0))]

\* readTree(entry) or readResults(entry) called from the loop of the
\* innermost activation, up to its first await: the cached object is
\* returned, or a new activation is suspended, a tree's after building newTree
CallEntry(st, entry) ==
    IF entry.isTree
    THEN IF entry.oid \in DOMAIN st.treeCache
         THEN [st EXCEPT !.ret = st.treeCache[entry.oid]]
         ELSE [st EXCEPT !.loaded = Append(@, NewTree(entry.oid)),
                         !.stack = Append(@, Frame(FALSE, entry.oid, Len(st.loaded) + 1, 0))]
    ELSE IF entry.oid \in DOMAIN st.testCache
         THEN [st EXCEPT !.ret = st.testCache[entry.oid]]
         ELSE [st EXCEPT !.stack = Append(@, Frame(TRUE, entry.oid, 0, 0))]

\* the for loop of the innermost readTree activation goes on to its next
\* entry, or ends: treeCache[key] = newTree; return newTree
LoopOn(st) ==
    LET f == st.stack[Len(st.stack)]
        entries == GitTrees[f.oid]
    IN IF f.next < Len(entries)
       THEN CallEntry([st EXCEPT !.stack[Len(st.stack)].next = f.next + 1],
                      entries[f.next + 1])
       ELSE Return([st EXCEPT !.treeCache = (f.oid :> f.ref) @@ @], f.ref)

\* the innermost activation goes on after its await, up to the next one
ResumeFrame(st) ==
    LET f == st.stack[Len(st.stack)]
        entry == GitTrees[f.oid][f.next]
    IN IF f.isBlob
       THEN Return([st EXCEPT !.loaded = Append(@, NewResults(f.oid)),
                              !.testCache = (f.oid :> (Len(st.loaded) + 1)) @@ @],
                   Len(st.loaded) + 1)
       ELSE IF f.next = 0
       THEN LoopOn(st)
       ELSE IF entry.isTree
       THEN LoopOn([st EXCEPT !.loaded[f.ref].trees = (entry.name :> st.ret) @@ @])
       ELSE LoopOn([st EXCEPT !.loaded[f.ref].tests = (entry.name :> st.ret) @@ @])

\* the call with the number c is left in the state st
LoaderBecomes(c, st) ==
    /\ loaded' = st.loaded
    /\ treeCache' = st.treeCache
    /\ testCache' = st.testCache
    /\ loads' = [i \in 1..c |->
                    IF i = c THEN [stack |-> st.stack, ret |-> st.ret, value |-> st.value]
                    ELSE loads[i]]
    /\ UNCHANGED <<scoringVars, reportVars, fetchVars>>

\* a new call, with nothing suspended
NewLoad == [stack |-> <<>>, ret |-> 0, value |-> 0]

\* main awaits each call before it makes the next one
AllReturned == \A c \in 1..Len(loads) : loads[c].stack = <<>>

\* readTree(tree) is called with a Git.Tree, and runs up to its first await
StartReadTree ==
    /\ Len(loads) < MaxLoads
    /\ AllReturned
    /\ \E oid \in DOMAIN GitTrees :
          LET st == LoaderState(NewLoad)
          IN LoaderBecomes(Len(loads) + 1,
                IF oid \in DOMAIN treeCache
                THEN [st EXCEPT !.value = treeCache[oid]]
                ELSE LoopOn([st EXCEPT !.loaded = Append(@, NewTree(oid)),
                                       !.stack = <<Frame(FALSE, oid, Len(loaded) + 1, 0)>>]))

\* readResults(entry) is called with a blob entry, and runs up to its await
StartReadResults ==
    /\ Len(loads) < MaxLoads
    /\ AllReturned
    /\ \E oid \in GitBlobs :
          LET st == LoaderState(NewLoad)
          IN LoaderBecomes(Len(loads) + 1,
                IF oid \in DOMAIN testCache
                THEN [st EXCEPT !.value = testCache[oid]]
                ELSE [st EXCEPT !.stack = <<Frame(TRUE, oid, 0, 0)>>])

\* the promise that the innermost activation of a call awaits is settled:
\* the activation runs up to its next await
Resume ==
    \E c \in 1..Len(loads) :
        /\ loads[c].stack # <<>>
        /\ LET st == ResumeFrame(LoaderState(loads[c]))
           IN /\ loaded' = st.loaded
              /\ treeCache' = st.treeCache
              /\ testCache' = st.testCache
              /\ loads' = [loads EXCEPT ![c] =
                              [stack |-> st.stack, ret |-> st.ret, value |-> st.value]]
        /\ UNCHANGED <<scoringVars, reportVars, fetchVars>>

InitLoader ==
    /\ NoScoring
    /\ ReportIdle
    /\ FetchIdle
    /\ LoaderIdle

NextLoader ==
    \/ StartReadTree
    \/ StartReadResults
    \/ Resume

SpecLoader == InitLoader /\ [][NextLoader]_vars

\* the object that stands for the entry: the one its name has in the tree object
ObjectOf(ref, entry) ==
    IF entry.isTree THEN loaded[ref].trees[entry.name] ELSE loaded[ref].tests[entry.name]

\* the entries of the repository that a finished tree object stands for
Represented ==
    {<<ref, entry>> \in (DOMAIN loaded) \X (UNION {Range(GitTrees[t]) : t \in DOMAIN GitTrees}) :
        /\ loaded[ref].isTree
        /\ loaded[ref].oid \in DOMAIN treeCache
        /\ treeCache[loaded[ref].oid] = ref
        /\ entry \in Range(GitTrees[loaded[ref].oid])}

\* C29: the loader deduplicates by oid.  After any sequence of readTree and
\* readResults calls, two entries of the same oid are represented by one and
\* the same object, no oid has two objects built for it, and the object a
\* cache holds for an oid is never replaced.
C29_OneObjectPerOid ==
    [][/\ \A r, q \in DOMAIN loaded' : loaded'[r].oid = loaded'[q].oid => r = q
       /\ \A x, y \in Represented' :
             x[2].oid = y[2].oid => ObjectOf(x[1], x[2])' = ObjectOf(y[1], y[2])'
       /\ \A oid \in DOMAIN treeCache :
             oid \in DOMAIN treeCache' /\ treeCache'[oid] = treeCache[oid]
       /\ \A oid \in DOMAIN testCache :
             oid \in DOMAIN testCache' /\ testCache'[oid] = testCache[oid]]_vars

\* t1 and t2 have been loaded one after the other: they share the one object
\* of t3, which t2 has under both names, and t3 has one object for x and z
C29_Witness ==
    /\ Len(loads) = 2
    /\ AllReturned
    /\ loaded[loads[1].value].oid = "t1"
    /\ loaded[loads[2].value].oid = "t2"
    /\ loaded[loads[1].value].trees["d"] = loaded[loads[2].value].trees["d"]
    /\ loaded[loads[2].value].trees["d"] = loaded[loads[2].value].trees["e"]
    /\ LET t3 == loaded[treeCache["t3"]]
       IN t3.tests["x"] = t3.tests["z"] /\ t3.tests["x"] # t3.tests["y"]
    /\ Len(loaded) = 5
====
